---- MODULE Spec2Model ----
(***************************************************************************)
(* sg_ses: SCSI Enclosure Services diagnostic pages.                       *)
(*                                                                         *)
(* The model follows src/sg_ses.c.  A request (ses_process_status) fetches *)
(* the target page with RECEIVE DIAGNOSTIC, checks the returned page code, *)
(* and for the element-keyed pages (0x02, 0x05, 0x07, 0x0a) fetches and    *)
(* parses the Configuration page (populate_element_hdr_arr) before handing *)
(* both to the page decoder.  Pages are byte sequences; every decoder is   *)
(* an operator over the bytes that returns what it rendered, how it ended  *)
(* and the highest buffer offset it read.  The enclosure is the            *)
(* environment: it owns a topology and a 32-bit generation code and may    *)
(* change both between the two receives of one request.                    *)
(***************************************************************************)
EXTENDS Integers, Sequences, FiniteSets, TLC

VARIABLES
    pc,               \* position of main / ses_process_status
    req,              \* the request: page_code and the rendering switches
    enc,              \* the enclosure: topology, generation, changes so far
    rsp_buff,         \* ses_process_status: buffer of the target page
    cfg_resp,         \* populate_element_hdr_arr: buffer of the Configuration page
    element_hdr_arr,  \* the static element header array
    res,              \* return value of populate_element_hdr_arr
    ref_gen_code,     \* generation code recorded by populate_element_hdr_arr
    events,           \* transport and comparison events, in order
    shot,             \* what the enclosure was when each page was fetched
    outcome,          \* how the request ended
    output,           \* what the page decoder produced
    statp_in,         \* record decode: the 4 status bytes, type and filter
    statp_out,        \* record decode: the lines print_over_elem_status printed
    cat_in,           \* catalog lookup: the catalog and the code looked up
    cat_out,          \* catalog lookup: the description returned, "" for NULL
    parses,           \* repeated parse: what each populate_element_hdr_arr gave
    ret,              \* main: the exit status
    ctl,              \* control request: page code, byte 1 and --data argument
    data_arr,         \* main: the array the control page is built in
    beyond,           \* the memory behind data_arr, as far as it was written
    arr_len,          \* main: the payload length read_hex reported
    sent              \* the pages handed to do_senddiag, in order

vars == <<pc, req, enc, rsp_buff, cfg_resp, element_hdr_arr, res, ref_gen_code,
          events, shot, outcome, output, statp_in, statp_out, cat_in, cat_out,
          parses, ret, ctl, data_arr, beyond, arr_len, sent>>

reqVars == <<pc, req, enc, rsp_buff, cfg_resp, element_hdr_arr, res,
             ref_gen_code, events, shot, outcome, output>>

recVars == <<statp_in, statp_out>>

catVars == <<cat_in, cat_out>>

\* the variables of the specifications of single functions
ctlVars == <<ctl, data_arr, beyond, arr_len, sent>>

\* the variables of the specifications of single functions and of control
pureVars == <<recVars, catVars, parses, ctlVars>>

----------------------------------------------------------------------------
(* Program constants *)

MX_ALLOC_LEN == 4096

MX_ELEM_HDR == 512

(* Bounds of the model *)

\* topology changes the enclosure makes during one request
MaxChanges == 1

\* bytes by which a faulty enclosure under-declares the length of a page
MaxCut == 4

\* how often one Configuration page is parsed in a row
MaxParses == 2

----------------------------------------------------------------------------
(* Bytes and bit fields *)

Max(a, b) == IF a >= b THEN a ELSE b

Min(a, b) == IF a <= b THEN a ELSE b

Pow2(n) == 2 ^ n

\* (b & (1 << n)) != 0
Bit(b, n) == (b \div Pow2(n)) % 2 = 1

\* (b & mask) != 0 for a mask given as its set of bit numbers
AnyBit(b, bits) == \E n \in bits : Bit(b, n)

\* b & 0xf
LowNibble(b) == b % 16

(* A receive buffer: the bytes the transfer wrote, and the value every     *)
(* other byte of the array holds (0 after memset; whatever the stack held  *)
(* for an array that was never initialised).                               *)
Buf(data, fill) == [data |-> data, fill |-> fill]

\* resp[i]
RB(buf, i) == IF i >= 0 /\ i < Len(buf.data) THEN buf.data[i + 1] ELSE buf.fill

\* (resp[2] << 8) + resp[3] + 4, capped at the size of the array
RespLen(buf) ==
    LET n == RB(buf, 2) * 256 + RB(buf, 3) + 4
    IN  IF n > MX_ALLOC_LEN THEN MX_ALLOC_LEN ELSE n

(* An unsigned int is kept as its four bytes, most significant first (the  *)
(* integers of TLC are 32 bits wide and signed): two values are equal      *)
(* exactly when their bytes are.                                           *)

\* (resp[4] << 24) | (resp[5] << 16) | (resp[6] << 8) | resp[7]
\* the generation code without its low byte
GenCodeNoLow(buf) == <<RB(buf, 4), RB(buf, 5), RB(buf, 6), 0>>

GenCode(buf) == <<RB(buf, 4), RB(buf, 5), RB(buf, 6), RB(buf, 7)>>

\* g + 1 in unsigned 32-bit arithmetic
Inc32(g) ==
    IF g[4] < 255 THEN <<g[1], g[2], g[3], g[4] + 1>>
    ELSE IF g[3] < 255 THEN <<g[1], g[2], g[3] + 1, 0>>
    ELSE IF g[2] < 255 THEN <<g[1], g[2] + 1, 0, 0>>
    ELSE IF g[1] < 255 THEN <<g[1] + 1, 0, 0, 0>>
    ELSE <<0, 0, 0, 0>>

\* ref_gen_code != gen_code
\* a comparison of the 3 high bytes only
GenDiffersHigh(ref, gen) == SubSeq(ref, 1, 3) # SubSeq(gen, 1, 3)

GenDiffers(ref, gen) == ref # gen

----------------------------------------------------------------------------
(* Descriptor catalogs *)

pc_desc_arr ==
    << [page_code |-> 0,  desc |-> "Supported diagnostic pages"],
       [page_code |-> 1,  desc |-> "Configuration (SES)"],
       [page_code |-> 2,  desc |-> "Enclosure status/control (SES)"],
       [page_code |-> 3,  desc |-> "Help text (SES)"],
       [page_code |-> 4,  desc |-> "String In/Out (SES)"],
       [page_code |-> 5,  desc |-> "Threshold In/Out (SES)"],
       [page_code |-> 6,  desc |-> "Array Status/Control (SES, obsolete)"],
       [page_code |-> 7,  desc |-> "Element descriptor (SES)"],
       [page_code |-> 8,  desc |-> "Short enclosure status (SES)"],
       [page_code |-> 9,  desc |-> "Enclosure busy (SES-2)"],
       [page_code |-> 10, desc |-> "Device element status (SES-2)"],
       [page_code |-> 11, desc |-> "Subenclosure help text (SES-2)"],
       [page_code |-> 12, desc |-> "Subenclosure string In/Out (SES-2)"],
       [page_code |-> 13, desc |-> "Supported SES diagnostic pages (SES-2)"],
       [page_code |-> 63, desc |-> "Protocol specific SAS (SAS-1)"],
       [page_code |-> 64, desc |-> "Translate address (SBC)"],
       [page_code |-> 65, desc |-> "Device status (SBC)"] >>

element_desc_arr ==
    << [type_code |-> 0,  desc |-> "Unspecified"],
       [type_code |-> 1,  desc |-> "Device"],
       [type_code |-> 2,  desc |-> "Power supply"],
       [type_code |-> 3,  desc |-> "Cooling"],
       [type_code |-> 4,  desc |-> "Temperature sense"],
       [type_code |-> 5,  desc |-> "Door lock"],
       [type_code |-> 6,  desc |-> "Audible alarm"],
       [type_code |-> 7,  desc |-> "Enclosure service controller electronics"],
       [type_code |-> 8,  desc |-> "SCC controller electronics"],
       [type_code |-> 9,  desc |-> "Nonvolatile cache"],
       [type_code |-> 10, desc |-> "Invalid operation reason"],
       [type_code |-> 11, desc |-> "Uninterruptible power supply"],
       [type_code |-> 12, desc |-> "Display"],
       [type_code |-> 13, desc |-> "Key pad entry"],
       [type_code |-> 14, desc |-> "Enclosure"],
       [type_code |-> 15, desc |-> "SCSI port/transceiver"],
       [type_code |-> 16, desc |-> "Language"],
       [type_code |-> 17, desc |-> "Communication port"],
       [type_code |-> 18, desc |-> "Voltage sensor"],
       [type_code |-> 19, desc |-> "Current sensor"],
       [type_code |-> 20, desc |-> "SCSI target port"],
       [type_code |-> 21, desc |-> "SCSI initiator port"],
       [type_code |-> 22, desc |-> "Simple subenclosure"],
       [type_code |-> 23, desc |-> "Array device"] >>

\* "" stands for the NULL the C function returns
RECURSIVE PcDescLoop(_, _)
PcDescLoop(page_num, k) ==
    IF k > Len(pc_desc_arr) THEN ""
    ELSE IF page_num = pc_desc_arr[k].page_code THEN pc_desc_arr[k].desc
    ELSE IF page_num < pc_desc_arr[k].page_code THEN ""
    ELSE PcDescLoop(page_num, k + 1)

\* a lookup that returns the entry at the would-be position of the code
find_page_code_desc_nearest(page_num) ==
    LET at == {k \in DOMAIN pc_desc_arr : page_num <= pc_desc_arr[k].page_code}
    IN  IF at = {} THEN ""
        ELSE pc_desc_arr[CHOOSE k \in at : \A m \in at : k <= m].desc

find_page_code_desc(page_num) == PcDescLoop(page_num, 1)

RECURSIVE ElemDescLoop(_, _)
ElemDescLoop(type_code, k) ==
    IF k > Len(element_desc_arr) THEN ""
    ELSE IF type_code = element_desc_arr[k].type_code THEN element_desc_arr[k].desc
    ELSE IF type_code < element_desc_arr[k].type_code THEN ""
    ELSE ElemDescLoop(type_code, k + 1)

find_element_desc(type_code) == ElemDescLoop(type_code, 1)

----------------------------------------------------------------------------
(* The element header array.  The C array has MX_ELEM_HDR entries, static  *)
(* and so zero at start; the model keeps the prefix written so far and     *)
(* reads every later entry as zero.                                        *)

ElemHdr(etype, num_elements, se_id) ==
    [etype |-> etype, num_elements |-> num_elements, se_id |-> se_id]

ZeroHdr == ElemHdr(0, 0, 0)

\* ehp[k]
Ehp(ehp, k) == IF k < Len(ehp) THEN ehp[k + 1] ELSE ZeroHdr

\* ehp[k] = h; the parser writes the entries in order, so k <= Len(ehp)
\* a store behind what the array already holds
EhpAppend(ehp, k, h) == Append(ehp, h)

EhpWrite(ehp, k, h) ==
    IF k < Len(ehp) THEN [ehp EXCEPT ![k + 1] = h] ELSE Append(ehp, h)

----------------------------------------------------------------------------
(* populate_element_hdr_arr, after a successful receive *)

\* a parser that leaves out the element types of a short descriptor
SubTypesIfLong(el, ntypes) == IF el < 40 THEN 0 ELSE ntypes

\* sum_elem_types += ucp[2], made before the length el is tested
SubTypes(el, ntypes) == ntypes

(* The walk over the subenclosure descriptors.  flagged holds the          *)
(* descriptors reported as "short enc descriptor"; the continue leads to   *)
(* ++k, ucp += el like the end of the loop body does.                      *)
RECURSIVE PopulateSubLoop(_, _, _, _, _, _, _)
PopulateSubLoop(buf, resp_len, num_subs, k, ucp, sum_elem_types, maxoff) ==
    IF k >= num_subs
    THEN [trunc |-> FALSE, ucp |-> ucp, sum |-> sum_elem_types, maxoff |-> maxoff,
          flagged |-> {}, walked |-> k]
    ELSE IF ucp + 4 > resp_len - 1
    THEN [trunc |-> TRUE, ucp |-> ucp, sum |-> sum_elem_types, maxoff |-> maxoff,
          flagged |-> {}, walked |-> k]
    ELSE LET el == RB(buf, ucp + 3) + 4
             r  == PopulateSubLoop(buf, resp_len, num_subs, k + 1, ucp + el,
                                   sum_elem_types + SubTypes(el, RB(buf, ucp + 2)),
                                   Max(maxoff, ucp + 3))
         IN  IF el < 40 THEN [r EXCEPT !.flagged = @ \cup {k}] ELSE r

\* a test that lets the index MX_ELEM_HDR pass
TooManyHdrsLate(k) == k > MX_ELEM_HDR

\* if (k >= MX_ELEM_HDR)
TooManyHdrs(k) == k >= MX_ELEM_HDR

(* The walk over the element type declarations, for (k = 0; k <            *)
(* sum_elem_types; ++k, ucp += 4).  One pass of the loop body is           *)
(* PopulateTypeStep; the passes lo .. hi - 1 are run in order, the range   *)
(* being halved so that the evaluation stays shallow for long walks.  A    *)
(* pass after the loop was left (err set) does nothing.                    *)
PopulateTypeStep(buf, resp_len, base, k, st) ==
    LET ucp == base + 4 * k
    IN  IF ucp + 4 > resp_len - 1 THEN [st EXCEPT !.err = "truncated"]
        ELSE IF TooManyHdrs(k) THEN [st EXCEPT !.err = "too_many"]
        ELSE [err |-> "none",
              ehp |-> EhpWrite(st.ehp, k, ElemHdr(RB(buf, ucp), RB(buf, ucp + 1),
                                                  RB(buf, ucp + 2))),
              maxoff |-> Max(st.maxoff, ucp + 2)]

RECURSIVE PopulateTypeLoop(_, _, _, _, _, _)
PopulateTypeLoop(buf, resp_len, base, lo, hi, st) ==
    IF st.err # "none" \/ lo >= hi THEN st
    ELSE IF hi = lo + 1 THEN PopulateTypeStep(buf, resp_len, base, lo, st)
    ELSE LET mid == (lo + hi) \div 2
         IN  PopulateTypeLoop(buf, resp_len, base, mid, hi,
                              PopulateTypeLoop(buf, resp_len, base, lo, mid, st))

\* a parser that takes a page of any page code
CfgPageCodeAny(buf) == RB(buf, 0) \in 0..255

\* the subenclosure walk was not reached
NoSubWalk ==
    [trunc |-> FALSE, ucp |-> 8, sum |-> 0, maxoff |-> 7, flagged |-> {},
     walked |-> 0]

\* the page code test on the received Configuration page
CfgPageCodeOk(buf) == RB(buf, 0) = 1

(* The result: res is the return value, gen the value stored through       *)
(* generationp (genset says whether the store happened), ehp the array     *)
(* afterwards, maxoff the highest offset of resp that was read.            *)
populate_element_hdr_arr(buf, ehp) ==
    LET resp_len == RespLen(buf)
    IN  IF ~CfgPageCodeOk(buf)
        THEN [res |-> -1, err |-> "page_code", genset |-> FALSE, gen |-> <<0, 0, 0, 0>>,
              ehp |-> ehp, maxoff |-> 3, resp_len |-> resp_len, sub |-> NoSubWalk]
        ELSE IF resp_len < 4
        THEN [res |-> -1, err |-> "truncated", genset |-> FALSE, gen |-> <<0, 0, 0, 0>>,
              ehp |-> ehp, maxoff |-> 3, resp_len |-> resp_len, sub |-> NoSubWalk]
        ELSE LET num_subs == RB(buf, 1) + 1
                 gen_code == GenCode(buf)
                 s == PopulateSubLoop(buf, resp_len, num_subs, 0, 8, 0, 7)
             IN  IF s.trunc
                 THEN [res |-> -1, err |-> "truncated", genset |-> TRUE,
                       gen |-> gen_code, ehp |-> ehp, maxoff |-> s.maxoff,
                       resp_len |-> resp_len, sub |-> s]
                 ELSE LET t == PopulateTypeLoop(buf, resp_len, s.ucp, 0, s.sum,
                                                [err |-> "none", ehp |-> ehp,
                                                 maxoff |-> s.maxoff])
                      IN  [res |-> IF t.err = "none" THEN s.sum ELSE -1,
                           err |-> t.err, genset |-> TRUE,
                           gen |-> gen_code, ehp |-> t.ehp, maxoff |-> t.maxoff,
                           resp_len |-> resp_len, sub |-> s]

----------------------------------------------------------------------------
(* The enclosure (the environment): what it answers to RECEIVE DIAGNOSTIC. *)
(* A topology lists the subenclosures and the element types; a page is     *)
(* laid out as the parsers of sg_ses.c read it.                            *)

RECURSIVE Concat(_)
Concat(ss) == IF ss = <<>> THEN <<>> ELSE Head(ss) \o Concat(Tail(ss))

BE16(n) == <<(n \div 256) % 256, n % 256>>

\* the generation code as it lies in a page, big-endian
GenBytes(g) == g

\* the 4-byte page header followed by the payload
Page(page_code, byte1, payload) ==
    <<page_code, byte1>> \o BE16(Len(payload)) \o payload

Sub(se_id, ntypes, dlen) == [se_id |-> se_id, ntypes |-> ntypes, dlen |-> dlen]

Type(etype, num, se_id, text) ==
    [etype |-> etype, num |-> num, se_id |-> se_id, text |-> text]

\* Scenario A: one subenclosure, Device (3 possible), Power supply (1 possible)
TopoA ==
    [subs  |-> <<Sub(0, 2, 36)>>,
     types |-> <<Type(1, 3, 0, <<>>), Type(2, 1, 0, <<>>)>>,
     pages |-> <<0, 1, 2, 0>>,
     help  |-> <<>>]

\* two subenclosures, type descriptor texts, an unknown type, a type without elements
TopoB ==
    [subs  |-> <<Sub(0, 2, 36), Sub(1, 2, 0)>>,
     types |-> <<Type(1, 2, 0, <<68, 101, 118>>), Type(4, 1, 0, <<>>),
                 Type(85, 1, 1, <<>>), Type(3, 0, 1, <<70>>)>>,
     pages |-> <<0, 1, 2, 5, 7, 10>>,
     help  |-> <<104, 105>>]

\* an array device, a UPS and a voltage sensor; a short subenclosure descriptor
TopoC ==
    [subs  |-> <<Sub(0, 3, 2)>>,
     types |-> <<Type(23, 1, 0, <<65>>), Type(11, 1, 0, <<>>), Type(18, 1, 0, <<>>)>>,
     pages |-> <<0, 1, 2, 3, 4, 5, 7, 10, 11, 12, 13>>,
     help  |-> <<79, 75, 33>>]

(* a short subenclosure descriptor followed by a full one; an element     *)
(* type just above the known ones in front of a known one; devices behind  *)
(* other element types                                                     *)
TopoD ==
    [subs  |-> <<Sub(0, 1, 2), Sub(1, 2, 36)>>,
     types |-> <<Type(24, 1, 0, <<68>>), Type(19, 1, 1, <<>>),
                 Type(1, 2, 1, <<>>)>>,
     pages |-> <<0, 1, 2, 5, 7, 10>>,
     help  |-> <<72>>]

Topologies == {TopoA, TopoB, TopoC, TopoD}

\* the header list a topology declares, in encounter order
TopoHdrs(topo) ==
    [i \in 1..Len(topo.types) |->
        ElemHdr(topo.types[i].etype, topo.types[i].num, topo.types[i].se_id)]

SubDesc(s) ==
    <<17, s.se_id, s.ntypes, s.dlen>> \o [i \in 1..s.dlen |-> 65 + (i % 26)]

TypeDecl(t) == <<t.etype, t.num, t.se_id, Len(t.text)>>

CfgPage(topo, g) ==
    Page(1, Len(topo.subs) - 1,
         GenBytes(g)
         \o Concat([i \in 1..Len(topo.subs) |-> SubDesc(topo.subs[i])])
         \o Concat([i \in 1..Len(topo.types) |-> TypeDecl(topo.types[i])])
         \o Concat([i \in 1..Len(topo.types) |-> topo.types[i].text]))

\* the status record of element j of a type (j = 0: the overall record)
StatusRec(t, j) ==
    IF j = 0 THEN <<1, 5, 160, 18>> ELSE <<(j + 1) % 16, 5 + j, 32 * j, 64 + j>>

ThreshRec(t, j) == <<70 + j, 60, 0, 15>>

\* overall record and the num individual records of one type, 4 bytes each
FixedRecs(t, Rec(_, _)) == Concat([j \in 1..(t.num + 1) |-> Rec(t, j - 1)])

StatusPage(topo, g) ==
    Page(2, 0, GenBytes(g)
               \o Concat([i \in 1..Len(topo.types) |->
                             FixedRecs(topo.types[i], StatusRec)]))

ThresholdPage(topo, g) ==
    Page(5, 0, GenBytes(g)
               \o Concat([i \in 1..Len(topo.types) |->
                             FixedRecs(topo.types[i], ThreshRec)]))

\* an element descriptor: 2 reserved bytes, 2-byte length, the text
DescRec(t, j) ==
    LET text == IF j = 1 THEN <<>> ELSE <<101, 48 + j>>
    IN  <<0, 0>> \o BE16(Len(text)) \o text

ElemDescPage(topo, g) ==
    Page(7, 0, GenBytes(g)
               \o Concat([i \in 1..Len(topo.types) |->
                             Concat([j \in 1..(topo.types[i].num + 1) |->
                                        DescRec(topo.types[i], j - 1)])]))

\* a transport descriptor: protocol, length, payload
SasDesc == <<6, 30, 1, 0>> \o [i \in 1..28 |-> IF i = 5 THEN 16 ELSE i]

FcpDesc == <<0, 26, 1, 0>> \o [i \in 1..24 |-> 32 + i]

OtherDesc == <<1, 4, 0, 0, 170, 187>>

TransportDesc(t, j) ==
    IF j = 0 THEN SasDesc ELSE IF j = 1 THEN FcpDesc ELSE OtherDesc

IsDeviceType(etype) == etype = 1 \/ etype = 23

DeviceElemPage(topo, g) ==
    Page(10, 0, GenBytes(g)
                \o Concat([i \in 1..Len(topo.types) |->
                              IF IsDeviceType(topo.types[i].etype)
                              THEN Concat([j \in 1..topo.types[i].num |->
                                              TransportDesc(topo.types[i], j - 1)])
                              ELSE <<>>]))

\* per subenclosure: reserved byte, identifier, 2-byte length, the bytes
SubencRec(s, text) == <<0, s.se_id>> \o BE16(Len(text)) \o text

SubencPage(page_code, topo, g) ==
    Page(page_code, Len(topo.subs) - 1,
         GenBytes(g)
         \o Concat([i \in 1..Len(topo.subs) |->
                       SubencRec(topo.subs[i], IF i = 1 THEN topo.help ELSE <<>>)]))

\* the page an enclosure of this topology and generation returns for a page code
HonestPage(page_code, topo, g) ==
    CASE page_code = 0  -> Page(0, 0, topo.pages)
      [] page_code = 1  -> CfgPage(topo, g)
      [] page_code = 2  -> StatusPage(topo, g)
      [] page_code = 3  -> Page(3, 0, topo.help)
      [] page_code = 4  -> Page(4, 0, topo.help)
      [] page_code = 5  -> ThresholdPage(topo, g)
      [] page_code = 7  -> ElemDescPage(topo, g)
      [] page_code = 8  -> <<8, 3, 0, 0>>
      [] page_code = 9  -> <<9, 0, 0, 0>>
      [] page_code = 10 -> DeviceElemPage(topo, g)
      [] page_code = 11 -> SubencPage(11, topo, g)
      [] page_code = 12 -> SubencPage(12, topo, g)
      [] page_code = 13 -> Page(13, 0, topo.pages)
      [] OTHER          -> Page(page_code, 0, <<1, 2>>)

\* the first n bytes of a page, its length field rewritten to match
Truncate(page, n) ==
    IF n < 4 THEN SubSeq(page, 1, 4)
    ELSE <<page[1], page[2]>> \o BE16(n - 4) \o SubSeq(page, 5, n)

\* the page with another value in its length field
Declare(page, n) == <<page[1], page[2]>> \o BE16(n) \o SubSeq(page, 5, Len(page))

Faults ==
    {"none", "cut", "header_only", "oversize", "busy", "short_status", "other_page"}

\* what a faulty enclosure returns in place of the honest page
Faulty(page, fault, cut) ==
    CASE fault = "none"         -> page
      [] fault = "cut"          -> Truncate(page, Len(page) - cut)
      [] fault = "header_only"  -> Truncate(page, 4)
      [] fault = "oversize"     -> Declare(page, 65535)
      [] fault = "busy"         -> <<9, 1, 0, 0>>
      [] fault = "short_status" -> <<8, 3, 0, 0>>
      [] fault = "other_page"   -> <<63>> \o Tail(page)

----------------------------------------------------------------------------
(* print_over_elem_status: the rendering of one 4-byte status record.      *)
(* A rendering is the sequence of the lines printed, a line the sequence   *)
(* of its <<label, value>> pairs; a %d of !!(x) is the number 0 or 1.      *)

\* a & m on bytes
BitAnd(a, m) ==
    LET f[n \in 0..8] ==
            IF n = 8 THEN 0
            ELSE (IF Bit(a, n) /\ Bit(m, n) THEN Pow2(n) ELSE 0) + f[n + 1]
    IN  f[0]

\* !!(b & mask)
Flag(b, mask) == IF BitAnd(b, mask) # 0 THEN 1 ELSE 0

\* the 16 bits taken as an unsigned number
Short16Unsigned(v) == v

\* (int)(short)v
Short16(v) == IF v >= 32768 THEN v - 65536 ELSE v

\* printf("%.2s", statp + 2): at most 2 bytes, up to a NUL
Str2(b2, b3) == IF b2 = 0 THEN <<>> ELSE IF b3 = 0 THEN <<b2>> ELSE <<b2, b3>>

(* table[idx] of a C array.  A read behind the last entry yields whatever  *)
(* lies there; it is marked, no decoder of the model reaches it.           *)
TableAt(table, idx) ==
    IF idx \in 0..(Len(table) - 1) THEN table[idx + 1] ELSE "<beyond the table>"

element_status_desc ==
    <<"Unsupported", "OK", "Critical", "Non-critical",
      "Unrecoverable", "Not installed", "Unknown", "Not available",
      "reserved [8]", "reserved [9]", "reserved [10]", "reserved [11]",
      "reserved [12]", "reserved [13]", "reserved [14]", "reserved [15]">>

actual_speed_desc ==
    <<"stopped", "at lowest speed", "at second lowest speed",
      "at third lowest speed", "at intermediate speed",
      "at third highest speed", "at second highest speed", "at highest speed">>

nv_cache_unit == <<"Bytes", "KiB", "MiB", "GiB">>

invop_type_desc ==
    <<"SEND DIAGNOSTIC page code error", "SEND DIAGNOSTIC page format error",
      "Reserved", "Vendor specific error">>

\* the status enumeration shifted by one place
StatusNameShifted(b) == element_status_desc[((BitAnd(b, 15) + 1) % 16) + 1]

\* statp[0] & 0xf
StatusIdx(b) == BitAnd(b, 15)

\* an index taken from the low four bits of statp[3]
SpeedIdxNibble(b) == BitAnd(b, 15)

\* 7 & statp[3]
SpeedIdx(b) == BitAnd(b, 7)

\* statp[1] & 0x3
NvUnitIdx(b) == BitAnd(b, 3)

\* (statp[1] >> 6) & 3
InvopIdx(b) == (b \div 64) % 4

\* element_status_desc[statp[0] & 0xf]
StatusName(b) == TableAt(element_status_desc, StatusIdx(b))

\* a line printed when its condition holds
LineIf(cond, pairs) == IF cond THEN <<pairs>> ELSE <<>>

\* a line printed unless --filter is given and none of its bits is set
Shown(filter, any) == (~filter) \/ any

\* one line of bytes printed in hex
HexLine(label, bytes) == << << <<label, bytes>> >> >>

CommonLine(statp) ==
    << <<"Predicted failure", Flag(statp[1], 64)>>,
       <<"swap", Flag(statp[1], 16)>>,
       <<"status", StatusName(statp[1])>> >>

DeviceLines(s1, s2, s3, filter) ==
    << << <<"Slot address", s1>> >> >>
    \o LineIf(Shown(filter, BitAnd(s2, 224) # 0),
              << <<"App client bypassed A", Flag(s2, 128)>>,
                 <<"Do not remove", Flag(s2, 64)>>,
                 <<"Enc bypassed A", Flag(s2, 32)>> >>)
    \o LineIf(Shown(filter, BitAnd(s2, 28) # 0),
              << <<"Enc bypassed B", Flag(s2, 16)>>,
                 <<"Ready to insert", Flag(s2, 8)>>,
                 <<"RMV", Flag(s2, 4)>>,
                 <<"Ident", Flag(s2, 2)>> >>)
    \o LineIf(Shown(filter, BitAnd(s2, 1) # 0 \/ BitAnd(s3, 224) # 0),
              << <<"Report", Flag(s2, 1)>>,
                 <<"App client bypassed B", Flag(s3, 128)>>,
                 <<"Fault sensed", Flag(s3, 64)>>,
                 <<"Fault requested", Flag(s3, 32)>> >>)
    \o LineIf(Shown(filter, BitAnd(s3, 30) # 0),
              << <<"Device off", Flag(s3, 16)>>,
                 <<"Bypassed A", Flag(s3, 8)>>,
                 <<"Bypassed B", Flag(s3, 4)>>,
                 <<"Device bypassed A", Flag(s3, 2)>> >>)
    \o LineIf(Shown(filter, BitAnd(s3, 1) # 0),
              << <<"Device bypassed B", Flag(s3, 1)>> >>)

PowerSupplyLines(s1, s2, s3, filter) ==
    LineIf(Shown(filter, BitAnd(s1, 128) # 0 \/ BitAnd(s2, 14) # 0),
           << <<"Ident", Flag(s1, 128)>>,
              <<"DC overvoltage", Flag(s2, 8)>>,
              <<"DC undervoltage", Flag(s2, 4)>>,
              <<"DC overcurrent", Flag(s2, 2)>> >>)
    \o LineIf(Shown(filter, BitAnd(s3, 120) # 0),
              << <<"Fail", Flag(s3, 64)>>,
                 <<"Requested on", Flag(s3, 32)>>,
                 <<"Off", Flag(s3, 16)>>,
                 <<"Overtemperature fail", Flag(s3, 8)>> >>)
    \o LineIf(Shown(filter, BitAnd(s3, 7) # 0),
              << <<"Temperature warn", Flag(s3, 4)>>,
                 <<"AC fail", Flag(s3, 2)>>,
                 <<"DC fail", Flag(s3, 1)>> >>)

CoolingLines(s1, s2, s3, filter) ==
    LineIf(Shown(filter, BitAnd(s1, 128) # 0 \/ BitAnd(s3, 112) # 0),
           << <<"Ident", Flag(s1, 128)>>,
              <<"Fail", Flag(s3, 64)>>,
              <<"Requested on", Flag(s3, 32)>>,
              <<"Off", Flag(s3, 16)>> >>)
    \o << << <<"Actual speed rpm", (BitAnd(s1, 3) * 256 + s2) * 10>>,
             <<"Fan", TableAt(actual_speed_desc, SpeedIdx(s3))>> >> >>

\* the offset taken in unsigned bytes
TempCelsiusAsByte(b) == (b - 20) % 256

\* (int)statp[2] - 20
TempCelsius(b) == b - 20

TemperatureLines(s1, s2, s3, filter) ==
    LineIf(Shown(filter, BitAnd(s1, 128) # 0 \/ BitAnd(s3, 15) # 0),
           << <<"Ident", Flag(s1, 128)>>,
              <<"OT Failure", Flag(s3, 8)>>,
              <<"OT warning", Flag(s3, 4)>>,
              <<"UT failure", Flag(s3, 2)>>,
              <<"UT warning", Flag(s3, 1)>> >>)
    \o (IF s2 # 0 THEN << << <<"Temperature C", TempCelsius(s2)>> >> >>
        ELSE << << <<"Temperature", "<reserved>">> >> >>)

AudibleAlarmLines(s1, s2, s3, filter) ==
    LineIf(Shown(filter, BitAnd(s1, 128) # 0 \/ BitAnd(s3, 208) # 0),
           << <<"Ident", Flag(s1, 128)>>,
              <<"Request mute", Flag(s3, 128)>>,
              <<"Mute", Flag(s3, 64)>>,
              <<"Remind", Flag(s3, 16)>> >>)
    \o LineIf(Shown(filter, BitAnd(s3, 15) # 0),
              << <<"Tone Info", Flag(s3, 8)>>,
                 <<"Tone Non-crit", Flag(s3, 4)>>,
                 <<"Tone Crit", Flag(s3, 2)>>,
                 <<"Tone Unrecov", Flag(s3, 1)>> >>)

\* the line of the element types that print Ident and one further flag
IdentAnd(label, ident, other, filter) ==
    LineIf(Shown(filter, ident # 0 \/ other # 0),
           << <<"Ident", ident>>, <<label, other>> >>)

IdentOnly(s1, filter) ==
    LineIf(Shown(filter, BitAnd(s1, 128) # 0), << <<"Ident", Flag(s1, 128)>> >>)

NvCacheLines(s1, s2, s3) ==
    LET size == s2 * 256 + s3
    IN  << << <<"Ident", Flag(s1, 128)>>,
              <<"Size multiplier", BitAnd(s1, 3)>>,
              <<"Non volatile cache size", size>> >>,
           << <<"Hence non volatile cache size", size>>,
              <<"unit", TableAt(nv_cache_unit, NvUnitIdx(s1))>> >> >>

InvopLines(s1, s2, s3) ==
    LET invop == InvopIdx(s1)
    IN  << << <<"Invop type", invop>>,
              <<"desc", TableAt(invop_type_desc, invop)>> >> >>
        \o (CASE invop = 0 -> << << <<"Page not supported", BitAnd(s1, 1)>> >> >>
              [] invop = 1 -> << << <<"Byte offset", s2 * 256 + s3>>,
                                    <<"bit number", BitAnd(s1, 7)>> >> >>
              [] OTHER     -> HexLine("last 3 bytes (hex)", <<s1, s2, s3>>))

UpsLines(s1, s2, s3, filter) ==
    << << (IF s1 = 0 THEN <<"Battery status", "discharged or unknown">>
           ELSE IF s1 = 255
           THEN <<"Battery status", "255 or more minutes remaining">>
           ELSE <<"Battery status minutes remaining", s1>>) >> >>
    \o LineIf(Shown(filter, BitAnd(s2, 248) # 0),
              << <<"AC low", Flag(s2, 128)>>,
                 <<"AC high", Flag(s2, 64)>>,
                 <<"AC qual", Flag(s2, 32)>>,
                 <<"AC fail", Flag(s2, 16)>>,
                 <<"DC fail", Flag(s2, 8)>> >>)
    \o LineIf(Shown(filter, BitAnd(s2, 7) # 0 \/ BitAnd(s3, 131) # 0),
              << <<"UPS fail", Flag(s2, 4)>>,
                 <<"Warn", Flag(s2, 2)>>,
                 <<"Intf fail", Flag(s2, 1)>>,
                 <<"Ident", Flag(s3, 128)>>,
                 <<"Batt fail", Flag(s3, 2)>>,
                 <<"BPF", Flag(s3, 1)>> >>)

EnclosureElemLines(s1, s2, s3, filter) ==
    LineIf(Shown(filter, BitAnd(s1, 128) # 0 \/ BitAnd(s2, 3) # 0),
           << <<"Ident", Flag(s1, 128)>>,
              <<"Failure indication", Flag(s2, 2)>>,
              <<"Warning indication", Flag(s2, 1)>> >>)
    \o LineIf(Shown(filter, BitAnd(s3, 3) # 0),
              << <<"Failure requested", Flag(s3, 2)>>,
                 <<"Warning requested", Flag(s3, 1)>> >>)

ScsiPortLines(s1, s2, s3, filter) ==
    LineIf(Shown(filter, BitAnd(s1, 128) # 0 \/ BitAnd(s2, 1) # 0
                         \/ BitAnd(s3, 19) # 0),
           << <<"Ident", Flag(s1, 128)>>,
              <<"Report", Flag(s2, 1)>>,
              <<"disabled", Flag(s3, 16)>>,
              <<"loss of link", Flag(s3, 2)>>,
              <<"Xmit fail", Flag(s3, 1)>> >>)

\* the value is in hundredths of a volt: printf("%.2f", x / 100.0)
VoltageLines(s1, s2, s3, filter) ==
    LineIf(Shown(filter, BitAnd(s1, 143) # 0),
           << <<"Ident", Flag(s1, 128)>>,
              <<"Warn Over", Flag(s1, 8)>>,
              <<"Warn Under", Flag(s1, 4)>>,
              <<"Crit Over", Flag(s1, 2)>>,
              <<"Crit Under", Flag(s1, 1)>> >>)
    \o << << <<"Voltage", Short16(s2 * 256 + s3)>> >> >>

\* the value is in hundredths of an amp
CurrentLines(s1, s2, s3, filter) ==
    LineIf(Shown(filter, BitAnd(s1, 138) # 0),
           << <<"Ident", Flag(s1, 128)>>,
              <<"Warn Over", Flag(s1, 8)>>,
              <<"Crit Over", Flag(s1, 2)>> >>)
    \o << << <<"Current", Short16(s2 * 256 + s3)>> >> >>

ScsiTargetLines(s1, s2, s3, filter) ==
    LineIf(Shown(filter, BitAnd(s1, 128) # 0 \/ BitAnd(s2, 1) # 0
                         \/ BitAnd(s3, 1) # 0),
           << <<"Ident", Flag(s1, 128)>>,
              <<"Report", Flag(s2, 1)>>,
              <<"Enabled", Flag(s3, 1)>> >>)

ArrayDeviceLines(s1, s2, s3, filter) ==
    LineIf(Shown(filter, BitAnd(s1, 240) # 0),
           << <<"OK", Flag(s1, 128)>>,
              <<"Reserved device", Flag(s1, 64)>>,
              <<"Hot spare", Flag(s1, 32)>>,
              <<"Cons check", Flag(s1, 16)>> >>)
    \o LineIf(Shown(filter, BitAnd(s1, 15) # 0),
              << <<"In crit array", Flag(s1, 8)>>,
                 <<"In failed array", Flag(s1, 4)>>,
                 <<"Rebuild/remap", Flag(s1, 2)>>,
                 <<"R/R abort", Flag(s1, 1)>> >>)
    \o LineIf(Shown(filter, BitAnd(s2, 240) # 0),
              << <<"App client bypass A", Flag(s2, 128)>>,
                 <<"Don't remove", Flag(s2, 64)>>,
                 <<"Enc bypass A", Flag(s2, 32)>>,
                 <<"Enc bypass B", Flag(s2, 16)>> >>)
    \o LineIf(Shown(filter, BitAnd(s2, 15) # 0),
              << <<"Ready to insert", Flag(s2, 8)>>,
                 <<"RMV", Flag(s2, 4)>>,
                 <<"Ident", Flag(s2, 2)>>,
                 <<"Report", Flag(s2, 1)>> >>)
    \o LineIf(Shown(filter, BitAnd(s3, 240) # 0),
              << <<"App client bypass B", Flag(s3, 128)>>,
                 <<"Fault sensed", Flag(s3, 64)>>,
                 <<"Fault reqstd", Flag(s3, 32)>>,
                 <<"Device off", Flag(s3, 16)>> >>)
    \o LineIf(Shown(filter, BitAnd(s3, 15) # 0),
              << <<"Bypassed A", Flag(s3, 8)>>,
                 <<"Bypassed B", Flag(s3, 4)>>,
                 <<"Dev bypassed A", Flag(s3, 2)>>,
                 <<"Dev bypassed B", Flag(s3, 1)>> >>)

\* statp is the 4 bytes statp[0..3]; the first line is printed for every type
print_over_elem_status(statp, etype, filter) ==
    LET s1 == statp[2]
        s2 == statp[3]
        s3 == statp[4]
    IN  <<CommonLine(statp)>> \o
        (CASE etype = 0  -> HexLine("status in hex", statp)
           [] etype = 1  -> DeviceLines(s1, s2, s3, filter)
           [] etype = 2  -> PowerSupplyLines(s1, s2, s3, filter)
           [] etype = 3  -> CoolingLines(s1, s2, s3, filter)
           [] etype = 4  -> TemperatureLines(s1, s2, s3, filter)
           [] etype = 5  -> IdentAnd("Unlock", Flag(s1, 128), Flag(s3, 1), filter)
           [] etype = 6  -> AudibleAlarmLines(s1, s2, s3, filter)
           [] etype = 7  -> IdentAnd("Report", Flag(s1, 128), Flag(s2, 1), filter)
           [] etype = 8  -> IdentAnd("Report", Flag(s1, 128), Flag(s2, 1), filter)
           [] etype = 9  -> NvCacheLines(s1, s2, s3)
           [] etype = 10 -> InvopLines(s1, s2, s3)
           [] etype = 11 -> UpsLines(s1, s2, s3, filter)
           [] etype = 12 -> IdentOnly(s1, filter)
           [] etype = 13 -> IdentOnly(s1, filter)
           [] etype = 14 -> EnclosureElemLines(s1, s2, s3, filter)
           [] etype = 15 -> ScsiPortLines(s1, s2, s3, filter)
           [] etype = 16 -> << << <<"Ident", Flag(s1, 128)>>,
                                  <<"Language code", Str2(s2, s3)>> >> >>
           [] etype = 17 -> IdentAnd("Disabled", Flag(s1, 128), Flag(s3, 1), filter)
           [] etype = 18 -> VoltageLines(s1, s2, s3, filter)
           [] etype = 19 -> CurrentLines(s1, s2, s3, filter)
           [] etype = 20 -> ScsiTargetLines(s1, s2, s3, filter)
           [] etype = 21 -> ScsiTargetLines(s1, s2, s3, filter)
           [] etype = 22 -> << << <<"Ident", Flag(s1, 128)>>,
                                  <<"Short enclosure status", s3>> >> >>
           [] etype = 23 -> ArrayDeviceLines(s1, s2, s3, filter)
           [] OTHER      -> HexLine("Unknown element type, status in hex", statp))

----------------------------------------------------------------------------
(* Page decoders.  Each returns                                            *)
(*   out    : "Rendered", "Truncated" (<<<response too short>>>) or        *)
(*            "Stale" (<<state of enclosure changed, please try again>>),  *)
(*   recs   : the records it rendered, in order,                           *)
(*   maxoff : the highest offset of the page buffer it read,               *)
(*   cmp    : whether it compared the generation codes.                    *)

Result(out, recs, maxoff, cmp) ==
    [out |-> out, recs |-> recs, maxoff |-> maxoff, cmp |-> cmp]

\* the 4 bytes ucp[0..3] at offset ucp
Quad(buf, ucp) == <<RB(buf, ucp), RB(buf, ucp + 1), RB(buf, ucp + 2), RB(buf, ucp + 3)>>

\* one rendered 4-byte record: header k, element j (0 is the overall record)
FixedRec(buf, k, j, ucp, etype) ==
    [hdr |-> k, elem |-> j, off |-> ucp, len |-> 4, etype |-> etype,
     bytes |-> Quad(buf, ucp)]

\* the last offset printf("%.*s", n, buf + off) reads: it stops at a NUL
StrLast(buf, off, n) ==
    LET inData == {i \in off..Min(off + n - 1, Len(buf.data) - 1) : RB(buf, i) = 0}
    IN  IF n <= 0 THEN off - 1
        ELSE IF inData # {} THEN CHOOSE i \in inData : \A m \in inData : i <= m
        ELSE IF off + n - 1 >= Len(buf.data) /\ buf.fill = 0
        THEN Max(off, Len(buf.data))
        ELSE off + n - 1

\* the last offset dStrHex(buf + off, n) reads
HexLast(off, n) == IF n <= 0 THEN off - 1 ELSE off + n - 1

\* (ucp + 4) > last_ucp, with last_ucp = resp + resp_len - 1
TooShort4(ucp, resp_len) == ucp + 4 > resp_len - 1

\* a decoder that prints nothing for an element type it does not know
StatusElemKnownOnly(buf, k, j, ucp, etype, inner_hex, filter) ==
    [hdr |-> k, elem |-> j, off |-> ucp, len |-> 4, etype |-> etype,
     bytes |-> Quad(buf, ucp),
     lines |-> IF inner_hex THEN HexLine("status(hex)", Quad(buf, ucp))
               ELSE IF etype \in 0..23
               THEN print_over_elem_status(Quad(buf, ucp), etype, filter)
               ELSE <<>>]

\* one record of the Enclosure Status page as it is printed
StatusElem(buf, k, j, ucp, etype, inner_hex, filter) ==
    [hdr |-> k, elem |-> j, off |-> ucp, len |-> 4, etype |-> etype,
     bytes |-> Quad(buf, ucp),
     lines |-> IF inner_hex THEN HexLine("status(hex)", Quad(buf, ucp))
               ELSE print_over_elem_status(Quad(buf, ucp), etype, filter)]

RECURSIVE EnclosureLoop(_, _, _, _, _, _, _, _, _, _)
EnclosureLoop(ehp, num_telems, buf, resp_len, inner_hex, filter, k, ucp, recs, maxoff) ==
    IF k >= num_telems THEN Result("Rendered", recs, maxoff, TRUE)
    ELSE IF TooShort4(ucp, resp_len) THEN Result("Truncated", recs, maxoff, TRUE)
    ELSE LET h == Ehp(ehp, k)
             n == h.num_elements
             new == [j \in 1..(n + 1) |->
                        StatusElem(buf, k, j - 1, ucp + 4 * (j - 1), h.etype,
                                   inner_hex, filter)]
         IN  EnclosureLoop(ehp, num_telems, buf, resp_len, inner_hex, filter,
                           k + 1, ucp + 4 * (n + 1), recs \o new,
                           Max(maxoff, ucp + 4 * (n + 1) - 1))

ses_enclosure_sdg(ehp, num_telems, ref, buf, resp_len, inner_hex, filter) ==
    IF resp_len < 4 THEN Result("Truncated", <<>>, -1, FALSE)
    ELSE IF resp_len < 8 THEN Result("Truncated", <<>>, 1, FALSE)
    ELSE IF GenDiffers(ref, GenCode(buf)) THEN Result("Stale", <<>>, 7, TRUE)
    ELSE EnclosureLoop(ehp, num_telems, buf, resp_len, inner_hex, filter,
                       0, 8, <<>>, 7)

(* reserved_or_num: the text "<res>" for the reserved number, the number   *)
(* in decimal otherwise                                                    *)
reserved_or_num(num, reserve_num) ==
    [text |-> IF num = reserve_num THEN "<res>" ELSE "%d", num |-> num]

\* "<vendor>" for 0, the byte in decimal otherwise
VendorOrNum(b) == [text |-> IF b = 0 THEN "<vendor>" ELSE "%d", num |-> b]

\* a product with 0.5 that drops the half
HalfPercentWhole(b) == 10 * (b \div 2)

\* printf("%.1f", 0.5 * b), in tenths of a percent
HalfPercent(b) == 5 * b

(* ses_threshold_helper: the lines printed for the 4 bytes tp[0..3] of one *)
(* threshold record.  p_num is -1 for the overall record; the name of the  *)
(* record is the first pair of the first line.                             *)
ses_threshold_helper(tp, etype, p_num, inner_hex) ==
    LET name == <<"Element threshold", p_num + 1>>
    IN  IF inner_hex THEN << <<name, <<"(in hex)", tp>> >> >>
        ELSE CASE etype = 4 ->
                    << <<name,
                         <<"high critical", reserved_or_num(tp[1] - 20, -20)>>,
                         <<"high warning", reserved_or_num(tp[2] - 20, -20)>> >>,
                       << <<"low warning", reserved_or_num(tp[3] - 20, -20)>>,
                          <<"low critical", reserved_or_num(tp[4] - 20, -20)>> >> >>
               [] etype = 11 ->
                    << <<name,
                         <<"low warning", VendorOrNum(tp[3])>>,
                         <<"low critical", VendorOrNum(tp[4])>> >> >>
               [] etype = 18 ->
                    << <<name,
                         <<"high critical", HalfPercent(tp[1])>>,
                         <<"high warning", HalfPercent(tp[2])>> >>,
                       << <<"low warning", HalfPercent(tp[3])>>,
                          <<"low critical", HalfPercent(tp[4])>> >> >>
               [] etype = 19 ->
                    << <<name,
                         <<"high critical", HalfPercent(tp[1])>>,
                         <<"high warning", HalfPercent(tp[2])>> >>,
                       << <<"(above nominal current)", 0>> >> >>
               [] OTHER -> <<>>

\* a walk that steps over the records of the types without thresholds
ThreshStrideSkipping(etype, num_elements) ==
    IF etype \in {4, 11, 18, 19} THEN 4 * (num_elements + 1) ELSE 0

\* ucp += 4 once for the overall record and once for each element
ThreshStride(etype, num_elements) == 4 * (num_elements + 1)

\* one record of the Threshold In page as it is printed
ThreshElem(buf, k, j, ucp, etype, inner_hex) ==
    [hdr |-> k, elem |-> j, off |-> ucp, len |-> 4, etype |-> etype,
     bytes |-> Quad(buf, ucp),
     lines |-> ses_threshold_helper(Quad(buf, ucp), etype, j - 1, inner_hex)]

RECURSIVE ThresholdLoop(_, _, _, _, _, _, _, _, _)
ThresholdLoop(ehp, num_telems, buf, resp_len, inner_hex, k, ucp, recs, maxoff) ==
    IF k >= num_telems THEN Result("Rendered", recs, maxoff, TRUE)
    ELSE IF TooShort4(ucp, resp_len) THEN Result("Truncated", recs, maxoff, TRUE)
    ELSE LET h == Ehp(ehp, k)
             n == h.num_elements
             new == [j \in 1..(n + 1) |->
                        ThreshElem(buf, k, j - 1, ucp + 4 * (j - 1), h.etype,
                                   inner_hex)]
             next == ucp + ThreshStride(h.etype, n)
         IN  ThresholdLoop(ehp, num_telems, buf, resp_len, inner_hex, k + 1,
                           next, recs \o new, Max(maxoff, ucp + 4 * (n + 1) - 1))

ses_threshold_sdg(ehp, num_telems, ref, buf, resp_len, inner_hex) ==
    IF resp_len < 4 THEN Result("Truncated", <<>>, -1, FALSE)
    ELSE IF resp_len < 8 THEN Result("Truncated", <<>>, 1, FALSE)
    ELSE IF GenDiffers(ref, GenCode(buf)) THEN Result("Stale", <<>>, 7, TRUE)
    ELSE ThresholdLoop(ehp, num_telems, buf, resp_len, inner_hex, 0, 8, <<>>, 7)

\* one rendered descriptor: its 2-byte length at off + 2, its text from off + 4
DescAt(buf, k, j, ucp, etype) ==
    LET desc_len == RB(buf, ucp + 2) * 256 + RB(buf, ucp + 3) + 4
    IN  [hdr |-> k, elem |-> j, off |-> ucp, len |-> desc_len, etype |-> etype,
         last |-> Max(ucp + 3, StrLast(buf, ucp + 4, desc_len - 4))]

\* the descriptors of the elements of one header, from index j on
RECURSIVE ElemDescInner(_, _, _, _, _, _, _)
ElemDescInner(buf, k, etype, num, j, ucp, acc) ==
    IF j >= num THEN [ucp |-> ucp, recs |-> acc.recs, maxoff |-> acc.maxoff]
    ELSE LET d == DescAt(buf, k, j + 1, ucp, etype)
         IN  ElemDescInner(buf, k, etype, num, j + 1, ucp + d.len,
                           [recs |-> Append(acc.recs, d),
                            maxoff |-> Max(acc.maxoff, d.last)])

RECURSIVE ElemDescLoopK(_, _, _, _, _, _, _, _)
ElemDescLoopK(ehp, num_telems, buf, resp_len, k, ucp, recs, maxoff) ==
    IF k >= num_telems THEN Result("Rendered", recs, maxoff, TRUE)
    ELSE IF TooShort4(ucp, resp_len) THEN Result("Truncated", recs, maxoff, TRUE)
    ELSE LET h == Ehp(ehp, k)
             d == DescAt(buf, k, 0, ucp, h.etype)
             r == ElemDescInner(buf, k, h.etype, h.num_elements, 0, ucp + d.len,
                                [recs |-> Append(recs, d),
                                 maxoff |-> Max(maxoff, d.last)])
         IN  ElemDescLoopK(ehp, num_telems, buf, resp_len, k + 1, r.ucp,
                           r.recs, r.maxoff)

ses_element_desc_sdg(ehp, num_telems, ref, buf, resp_len) ==
    IF resp_len < 4 THEN Result("Truncated", <<>>, -1, FALSE)
    ELSE IF resp_len < 8 THEN Result("Truncated", <<>>, -1, FALSE)
    ELSE IF GenDiffers(ref, GenCode(buf)) THEN Result("Stale", <<>>, 7, TRUE)
    ELSE ElemDescLoopK(ehp, num_telems, buf, resp_len, 0, 8, <<>>, 7)

transport_proto_arr ==
    <<"Fibre Channel (FCP-2)", "Parallel SCSI (SPI-5)", "SSA (SSA-S3P)",
      "IEEE 1394 (SBP-3)", "Remote Direct Memory Access (RDMA)",
      "Internet SCSI (iSCSI)", "Serial Attached SCSI (SAS)",
      "Automation/Drive Interface Transport Protocol (ADT)",
      "ATA Packet Interface (ATA/ATAPI-7)",
      "Ox9", "Oxa", "Oxb", "Oxc", "Oxd", "Oxe", "No specific protocol">>

sas_device_type ==
    <<"no device attached", "end device", "edge expander device",
      "fanout expander device",
      "reserved [4]", "reserved [5]", "reserved [6]", "reserved [7]">>

\* 0xf & ucp[0]
ProtoIdx(b) == LowNibble(b)

\* (0x70 & per_ucp[4]) >> 4
SasDevIdx(b) == BitAnd(b, 112) \div 16

\* the label printed for per-port record j of an FCP descriptor
FcpPortLabel(ports, j) == j + 1

\* a label taken from the position of the record, as in the loop over the ports
SasPhyLabelByIndex(phys, j) == j + 1

\* the label printed for per-phy record j of a SAS descriptor
SasPhyLabel(phys, j) == phys + 1

(* ses_transport_proto: the protocol, the labels of the per-port or        *)
(* per-phy records it printed, the device types of the phys or the name of *)
(* a protocol it does not decode, and the last offset it read.             *)
ses_transport_proto(buf, ucp, len, elem_num) ==
    LET proto == ProtoIdx(RB(buf, ucp))
        cnt   == RB(buf, ucp + 2)
    IN  CASE proto = 0 ->
               [proto |-> proto, elem |-> elem_num + 1,
                labels |-> [j \in 1..cnt |-> FcpPortLabel(cnt, j - 1)],
                names |-> <<>>,
                last |-> IF cnt = 0 THEN ucp + 11 ELSE ucp + 12 + 16 * (cnt - 1) + 15]
          [] proto = 6 ->
               [proto |-> proto, elem |-> elem_num + 1,
                labels |-> [j \in 1..cnt |-> SasPhyLabel(cnt, j - 1)],
                names |-> [j \in 1..cnt |->
                             TableAt(sas_device_type,
                                     SasDevIdx(RB(buf, ucp + 4 + 28 * (j - 1) + 4)))],
                last |-> IF cnt = 0 THEN ucp + 3 ELSE ucp + 4 + 28 * (cnt - 1) + 24]
          [] OTHER ->
               [proto |-> proto, elem |-> elem_num + 1, labels |-> <<>>,
                names |-> <<TableAt(transport_proto_arr, proto)>>,
                last |-> Max(ucp, HexLast(ucp + 4, len - 4))]

\* a step over the bytes behind the length byte only
DescLenPayload(b) == b

\* desc_len = ucp[1] + 2
DescLen(b) == b + 2

\* the transport descriptors of the elements of one header, from index j on
RECURSIVE DeviceInner(_, _, _, _, _, _, _)
DeviceInner(buf, k, etype, num, j, ucp, acc) ==
    IF j >= num THEN [ucp |-> ucp, recs |-> acc.recs, maxoff |-> acc.maxoff]
    ELSE LET desc_len == DescLen(RB(buf, ucp + 1))
             t == ses_transport_proto(buf, ucp, desc_len, j)
         IN  DeviceInner(buf, k, etype, num, j + 1, ucp + desc_len,
                         [recs |-> Append(acc.recs,
                                     [hdr |-> k, elem |-> j + 1, off |-> ucp,
                                      len |-> desc_len, etype |-> etype,
                                      proto |-> t.proto, labels |-> t.labels]),
                          maxoff |-> Max(acc.maxoff, Max(ucp + 1, t.last))])

RECURSIVE DeviceLoop(_, _, _, _, _, _, _, _)
DeviceLoop(ehp, num_telems, buf, resp_len, k, ucp, recs, maxoff) ==
    IF k >= num_telems THEN Result("Rendered", recs, maxoff, TRUE)
    ELSE IF ucp + 2 > resp_len - 1 THEN Result("Truncated", recs, maxoff, TRUE)
    ELSE LET h == Ehp(ehp, k)
         IN  IF h.etype # 1 /\ h.etype # 23
             THEN DeviceLoop(ehp, num_telems, buf, resp_len, k + 1, ucp, recs, maxoff)
             ELSE LET r == DeviceInner(buf, k, h.etype, h.num_elements, 0, ucp,
                                       [recs |-> recs, maxoff |-> maxoff])
                  IN  DeviceLoop(ehp, num_telems, buf, resp_len, k + 1, r.ucp,
                                 r.recs, r.maxoff)

ses_device_elem_sdg(ehp, num_telems, ref, buf, resp_len) ==
    IF resp_len < 4 THEN Result("Truncated", <<>>, -1, FALSE)
    ELSE IF GenDiffers(ref, GenCode(buf)) THEN Result("Stale", <<>>, 7, TRUE)
    ELSE DeviceLoop(ehp, num_telems, buf, resp_len, 0, 8, <<>>, 7)

(* The subenclosure help text and string pages: per subenclosure a 4-byte  *)
(* header with a 2-byte length, then the text (printed with %.*s) or the   *)
(* string (dumped with dStrHex).                                           *)
RECURSIVE SubencLoop(_, _, _, _, _, _, _, _)
SubencLoop(buf, resp_len, num_subs, asText, k, ucp, recs, maxoff) ==
    IF k >= num_subs THEN Result("Rendered", recs, maxoff, FALSE)
    ELSE IF TooShort4(ucp, resp_len) THEN Result("Truncated", recs, maxoff, FALSE)
    ELSE LET el   == RB(buf, ucp + 2) * 256 + RB(buf, ucp + 3) + 4
             last == IF asText THEN StrLast(buf, ucp + 4, el - 4)
                     ELSE HexLast(ucp + 4, el - 4)
         IN  SubencLoop(buf, resp_len, num_subs, asText, k + 1, ucp + el,
                        Append(recs, [sub |-> k, se_id |-> RB(buf, ucp + 1),
                                      off |-> ucp, len |-> el, last |-> last]),
                        Max(maxoff, Max(ucp + 3, last)))

ses_subenc_help_sdg(buf, resp_len) ==
    IF resp_len < 4 THEN Result("Truncated", <<>>, -1, FALSE)
    ELSE SubencLoop(buf, resp_len, RB(buf, 1) + 1, TRUE, 0, 8, <<>>, 7)

ses_subenc_string_sdg(buf, resp_len) ==
    IF resp_len < 4 THEN Result("Truncated", <<>>, -1, FALSE)
    ELSE SubencLoop(buf, resp_len, RB(buf, 1) + 1, FALSE, 0, 8, <<>>, 7)

(* ses_supported_pages_sdg, for (k = 0, prev = 0; k < (resp_len - 4); ++k, *)
(* prev = code).  One pass of the loop body is SupportedStep; the passes   *)
(* lo .. hi - 1 are run in order, the range being halved so that the       *)
(* evaluation stays shallow.  A pass after the break does nothing.         *)
\* a walk that also stops at a byte equal to its predecessor
SupportedStepStrict(buf, k, st) ==
    LET code == RB(buf, k + 4)
    IN  IF code <= st.prev
        THEN [st EXCEPT !.stop = TRUE, !.maxoff = k + 4]
        ELSE [stop |-> FALSE, prev |-> code, recs |-> Append(st.recs, code),
              maxoff |-> k + 4]

SupportedStep(buf, k, st) ==
    LET code == RB(buf, k + 4)
    IN  IF code < st.prev
        THEN [st EXCEPT !.stop = TRUE, !.maxoff = k + 4]
        ELSE [stop |-> FALSE, prev |-> code, recs |-> Append(st.recs, code),
              maxoff |-> k + 4]

RECURSIVE SupportedLoop(_, _, _, _)
SupportedLoop(buf, lo, hi, st) ==
    IF st.stop \/ lo >= hi THEN st
    ELSE IF hi = lo + 1 THEN SupportedStep(buf, lo, st)
    ELSE LET mid == (lo + hi) \div 2
         IN  SupportedLoop(buf, mid, hi, SupportedLoop(buf, lo, mid, st))

ses_supported_pages_sdg(buf, resp_len) ==
    LET st == SupportedLoop(buf, 0, resp_len - 4,
                            [stop |-> FALSE, prev |-> 0, recs |-> <<>>, maxoff |-> 3])
    IN  Result("Rendered", st.recs, st.maxoff, FALSE)

(* ses_configuration_sdg: the Configuration page as a report of its own.   *)
RECURSIVE ConfigSubLoop(_, _, _, _, _, _, _, _)
ConfigSubLoop(buf, resp_len, num_subs, k, ucp, sum_elem_types, recs, maxoff) ==
    IF k >= num_subs
    THEN [trunc |-> FALSE, ucp |-> ucp, sum |-> sum_elem_types, recs |-> recs,
          maxoff |-> maxoff]
    ELSE IF TooShort4(ucp, resp_len)
    THEN [trunc |-> TRUE, ucp |-> ucp, sum |-> sum_elem_types, recs |-> recs,
          maxoff |-> maxoff]
    ELSE LET el == RB(buf, ucp + 3) + 4
             last == IF el < 40 THEN ucp + 3
                     ELSE Max(ucp + 39, HexLast(ucp + 40, el - 40))
         IN  ConfigSubLoop(buf, resp_len, num_subs, k + 1, ucp + el,
                           sum_elem_types + RB(buf, ucp + 2),
                           Append(recs, [sub |-> k, se_id |-> RB(buf, ucp + 1),
                                         ntypes |-> RB(buf, ucp + 2),
                                         short |-> el < 40]),
                           Max(maxoff, last))

RECURSIVE ConfigTypeLoop(_, _, _, _, _, _, _, _)
ConfigTypeLoop(buf, resp_len, sum_elem_types, k, ucp, text_ucp, recs, maxoff) ==
    IF k >= sum_elem_types THEN Result("Rendered", recs, maxoff, FALSE)
    ELSE IF TooShort4(ucp, resp_len) THEN Result("Truncated", recs, maxoff, FALSE)
    ELSE LET tlen == RB(buf, ucp + 3)
             hdr  == ElemHdr(RB(buf, ucp), RB(buf, ucp + 1), RB(buf, ucp + 2))
         IN  IF tlen > 0 /\ text_ucp > resp_len - 1
             THEN Result("Truncated", Append(recs, hdr), Max(maxoff, ucp + 3), FALSE)
             ELSE ConfigTypeLoop(buf, resp_len, sum_elem_types, k + 1, ucp + 4,
                                 text_ucp + tlen, Append(recs, hdr),
                                 Max(maxoff, Max(ucp + 3,
                                                 StrLast(buf, text_ucp, tlen))))

ses_configuration_sdg(buf, resp_len) ==
    IF resp_len < 4 THEN Result("Truncated", <<>>, -1, FALSE)
    ELSE LET s == ConfigSubLoop(buf, resp_len, RB(buf, 1) + 1, 0, 8, 0, <<>>, 7)
         IN  IF s.trunc THEN Result("Truncated", s.recs, s.maxoff, FALSE)
             ELSE ConfigTypeLoop(buf, resp_len, s.sum, 0, s.ucp,
                                 s.ucp + 4 * s.sum, s.recs, s.maxoff)

----------------------------------------------------------------------------
(* The request: main calling ses_process_status *)

PageCodes == {0, 1, 2, 3, 4, 5, 7, 8, 9, 10, 11, 12, 13, 63}

\* the pages decoded against the element map of the Configuration page
ElementKeyed == {2, 5, 7, 10}

\* the pages whose decoder takes nothing but the page itself
TopologyIndependent == {0, 13, 3, 11, 4, 12}

Mode(do_raw, do_hex, inner_hex, filter) ==
    [do_raw |-> do_raw, do_hex |-> do_hex, inner_hex |-> inner_hex,
     filter |-> filter]

\* default, --raw, --hex, --inner-hex (--filter is exercised on single records)
Modes ==
    {Mode(FALSE, FALSE, FALSE, FALSE), Mode(TRUE, FALSE, FALSE, FALSE),
     Mode(FALSE, TRUE, FALSE, FALSE), Mode(FALSE, FALSE, TRUE, FALSE)}

InitGens == {<<0, 0, 0, 7>>, <<255, 255, 255, 255>>}

\* values an uninitialised byte of populate_element_hdr_arr's resp may hold
JunkBytes == {0, 165}

\* history: the enclosure at a receive, and the fault it answered with
NoShot ==
    [taken |-> FALSE, epoch |-> 0, topo |-> TopoA, gen |-> <<0, 0, 0, 0>>,
     fault |-> "none", cut |-> 0]

Shot(e, fault, cut) ==
    [taken |-> TRUE, epoch |-> e.epoch, topo |-> e.topo, gen |-> e.gen,
     fault |-> fault, cut |-> cut]

NoOutput == Result("none", <<>>, -1, FALSE)

\* a fault and the number of bytes it cuts
FaultChoices ==
    {<<f, 0>> : f \in Faults \ {"cut"}} \cup {<<"cut", c>> : c \in 1..MaxCut}

\* a Configuration page declaring more element types than the array holds
TooManyPage(g) ==
    Page(1, 2, GenBytes(g)
               \o <<17, 0, 255, 0>> \o <<17, 1, 255, 0>> \o <<17, 2, 3, 0>>
               \o [i \in 1..(4 * (MX_ELEM_HDR + 1)) |->
                      IF i % 4 = 1 THEN 4 ELSE IF i % 4 = 2 THEN 1 ELSE 0]
               \o <<0>>)

\* the oversized page is offered after an undisturbed fetch of the target page
CfgFaultChoices(e, tgt) ==
    FaultChoices
    \cup (IF e.epoch = 0 /\ tgt.fault = "none" THEN {<<"too_many", 0>>} ELSE {})

CfgResponse(e, fault, cut) ==
    IF fault = "too_many" THEN TooManyPage(e.gen)
    ELSE Faulty(CfgPage(e.topo, e.gen), fault, cut)

RecInit ==
    /\ statp_in = [statp |-> <<0, 0, 0, 0>>, etype |-> 0, filter |-> FALSE]
    /\ statp_out = <<>>

CatInit ==
    /\ cat_in = [catalog |-> "page", code |-> 0]
    /\ cat_out = ""
    /\ parses = <<>>

\* main before its options are read: int ret = 1, no --data seen
CtlInit ==
    /\ ret = 1
    /\ ctl = [page_code |-> 0, byte1 |-> 0, tokens |-> <<>>]
    /\ data_arr = <<>>
    /\ beyond = <<>>
    /\ arr_len = 0
    /\ sent = <<>>

\* no request is made: the variables of ses_process_status stay as they are
ReqIdle(at) ==
    /\ pc = at
    /\ req = [page_code |-> 2, mode |-> Mode(FALSE, FALSE, FALSE, FALSE)]
    /\ enc = [topo |-> TopoA, gen |-> <<0, 0, 0, 0>>, epoch |-> 0]
    /\ rsp_buff = Buf(<<>>, 0)
    /\ cfg_resp = Buf(<<>>, 0)
    /\ element_hdr_arr = <<>>
    /\ res = 0
    /\ ref_gen_code = <<0, 0, 0, 0>>
    /\ events = <<>>
    /\ shot = [tgt |-> NoShot, cfg |-> NoShot]
    /\ outcome = "pending"
    /\ output = NoOutput

Init ==
    /\ pc = "rcv_target"
    /\ req \in [page_code : PageCodes, mode : Modes]
    /\ enc \in [topo : Topologies, gen : InitGens, epoch : {0}]
    /\ rsp_buff = Buf(<<>>, 0)
    /\ cfg_resp = Buf(<<>>, 0)
    /\ element_hdr_arr = <<>>
    /\ res = 0
    /\ ref_gen_code = <<0, 0, 0, 0>>
    /\ events = <<>>
    /\ shot = [tgt |-> NoShot, cfg |-> NoShot]
    /\ outcome = "pending"
    /\ output = NoOutput
    /\ RecInit
    /\ CatInit
    /\ CtlInit

(* What main returns after a status request.  ses_process_status returns  *)
(* nothing, and main sets ret = 0 behind the call whatever was printed.    *)
ExitStatus(how) == 0

(* The enclosure changes its topology, and with it its generation code.    *)
(* The state it had at the first receive is any initial state, so only the *)
(* changes after that receive are taken.                                   *)
EnclosureChange ==
    /\ pc \in {"dispatch", "populate"}
    /\ enc.epoch < MaxChanges
    /\ \E t \in Topologies \ {enc.topo} :
          enc' = [topo |-> t, gen |-> Inc32(enc.gen),
                  epoch |-> enc.epoch + 1]
    /\ UNCHANGED <<pc, req, rsp_buff, cfg_resp, element_hdr_arr, res,
                   ref_gen_code, events, shot, outcome, output, pureVars, ret>>

\* do_rcvdiag of the target page fails
RcvTargetFail ==
    /\ pc = "rcv_target"
    /\ pc' = "done"
    /\ ret' = ExitStatus(outcome')
    /\ events' = Append(events, "rcv_target")
    /\ outcome' = "TransportError"
    /\ UNCHANGED <<req, enc, rsp_buff, cfg_resp, element_hdr_arr, res,
                   ref_gen_code, shot, output, pureVars>>

\* do_rcvdiag of the target page succeeds
RcvTarget ==
    /\ pc = "rcv_target"
    /\ \E fc \in FaultChoices :
          /\ rsp_buff' = Buf(Faulty(HonestPage(req.page_code, enc.topo, enc.gen),
                                    fc[1], fc[2]), 0)
          /\ shot' = [shot EXCEPT !.tgt = Shot(enc, fc[1], fc[2])]
    /\ pc' = "dispatch"
    /\ events' = Append(events, "rcv_target")
    /\ UNCHANGED <<req, enc, cfg_resp, element_hdr_arr, res, ref_gen_code,
                   outcome, output, pureVars, ret>>

\* page_code != rsp_buff[0]
PageCodeMismatch == req.page_code # RB(rsp_buff, 0)

(* What is printed for a page with another page code: a message, and     *)
(* dStrHex of the page unless the enclosure is busy (then with --hex       *)
(* only) or reports Short Enclosure status.                                *)
MismatchDump(buf, rsp_len, do_hex) ==
    LET busy   == RB(buf, 0) = 9 /\ RB(buf, 1) % 2 = 1
        short  == RB(buf, 0) = 8
        dumped == IF busy THEN do_hex ELSE ~short
    IN  Result("none", <<>>, IF dumped THEN HexLast(0, rsp_len) ELSE 1, FALSE)

\* the returned page is not the page asked for
DispatchMismatch ==
    /\ pc = "dispatch"
    /\ PageCodeMismatch
    /\ pc' = "done"
    /\ ret' = ExitStatus(outcome')
    /\ outcome' = "BadPageCode"
    /\ output' = MismatchDump(rsp_buff, RespLen(rsp_buff), req.mode.do_hex)
    /\ UNCHANGED <<req, enc, rsp_buff, cfg_resp, element_hdr_arr, res,
                   ref_gen_code, events, shot, pureVars>>

\* --raw: dStrHex of the payload
DispatchRaw ==
    /\ pc = "dispatch"
    /\ ~PageCodeMismatch
    /\ req.mode.do_raw
    /\ pc' = "done"
    /\ ret' = ExitStatus(outcome')
    /\ outcome' = "Raw"
    /\ output' = Result("Raw", <<>>, Max(3, HexLast(4, RespLen(rsp_buff) - 4)), FALSE)
    /\ UNCHANGED <<req, enc, rsp_buff, cfg_resp, element_hdr_arr, res,
                   ref_gen_code, events, shot, pureVars>>

\* --hex: dStrHex of the whole page
DispatchHex ==
    /\ pc = "dispatch"
    /\ ~PageCodeMismatch
    /\ ~req.mode.do_raw
    /\ req.mode.do_hex
    /\ pc' = "done"
    /\ ret' = ExitStatus(outcome')
    /\ outcome' = "Hex"
    /\ output' = Result("Hex", <<>>, RespLen(rsp_buff) - 1, FALSE)
    /\ UNCHANGED <<req, enc, rsp_buff, cfg_resp, element_hdr_arr, res,
                   ref_gen_code, events, shot, pureVars>>

\* the cases of the switch that decode the page on its own
DecodeAlone(page_code, buf, rsp_len) ==
    CASE page_code = 0  -> ses_supported_pages_sdg(buf, rsp_len)
      [] page_code = 1  -> ses_configuration_sdg(buf, rsp_len)
      [] page_code = 3  -> Result("Rendered", <<>>,
                                  Max(3, StrLast(buf, 4, rsp_len - 4)), FALSE)
      [] page_code = 4  -> Result("Rendered", <<>>,
                                  Max(3, HexLast(4, rsp_len - 4)), FALSE)
      [] page_code = 8  -> Result("Rendered", <<RB(buf, 1)>>, 3, FALSE)
      [] page_code = 9  -> Result("Rendered", <<RB(buf, 1) % 2>>, 3, FALSE)
      [] page_code = 11 -> ses_subenc_help_sdg(buf, rsp_len)
      [] page_code = 12 -> ses_subenc_string_sdg(buf, rsp_len)
      [] page_code = 13 -> ses_supported_pages_sdg(buf, rsp_len)
      [] OTHER          -> Result("Rendered", <<>>, rsp_len - 1, FALSE)

\* a switch that also builds the element map for the Subenclosure Help page
NeedsElementMapWithHelp(page_code) == page_code \in {2, 5, 7, 10, 11}

\* the cases of the switch that call populate_element_hdr_arr first
NeedsElementMap(page_code) == page_code \in {2, 5, 7, 10}

DispatchDecode ==
    /\ pc = "dispatch"
    /\ ~PageCodeMismatch
    /\ ~req.mode.do_raw
    /\ ~req.mode.do_hex
    /\ ~NeedsElementMap(req.page_code)
    /\ pc' = "done"
    /\ ret' = ExitStatus(outcome')
    /\ output' = DecodeAlone(req.page_code, rsp_buff, RespLen(rsp_buff))
    /\ outcome' = output'.out
    /\ UNCHANGED <<req, enc, rsp_buff, cfg_resp, element_hdr_arr, res,
                   ref_gen_code, events, shot, pureVars>>

DispatchKeyed ==
    /\ pc = "dispatch"
    /\ ~PageCodeMismatch
    /\ ~req.mode.do_raw
    /\ ~req.mode.do_hex
    /\ NeedsElementMap(req.page_code)
    /\ pc' = "populate"
    /\ UNCHANGED <<req, enc, rsp_buff, cfg_resp, element_hdr_arr, res,
                   ref_gen_code, events, shot, outcome, output, pureVars, ret>>

\* populate_element_hdr_arr: do_rcvdiag of the Configuration page fails
PopulateRcvFail ==
    /\ pc = "populate"
    /\ pc' = "done"
    /\ ret' = ExitStatus(outcome')
    /\ res' = -1
    /\ events' = Append(events, "rcv_config")
    /\ outcome' = "Rejected"
    /\ UNCHANGED <<req, enc, rsp_buff, cfg_resp, element_hdr_arr, ref_gen_code,
                   shot, output, pureVars>>

\* the cases of the switch that hand the element map to a decoder
DecodeKeyed(page_code, ehp, num_telems, ref, buf, rsp_len, inner_hex, filter) ==
    CASE page_code = 2  -> ses_enclosure_sdg(ehp, num_telems, ref, buf, rsp_len,
                                             inner_hex, filter)
      [] page_code = 5  -> ses_threshold_sdg(ehp, num_telems, ref, buf, rsp_len,
                                             inner_hex)
      [] page_code = 7  -> ses_element_desc_sdg(ehp, num_telems, ref, buf, rsp_len)
      [] page_code = 10 -> ses_device_elem_sdg(ehp, num_telems, ref, buf, rsp_len)
      [] OTHER          -> NoOutput

\* a dispatcher that goes on after a failed parse
PopulateFailedIgnored(r) == r < -1

\* if (res < 0) break;
PopulateFailed(r) == r < 0

\* a Configuration page that is received a second time
KeyedEventsRetry(compared) ==
    <<"rcv_config", "rcv_config">> \o (IF compared THEN <<"compare">> ELSE <<>>)

\* a comparison made before the Configuration page is received
KeyedEventsCompareFirst(compared) ==
    (IF compared THEN <<"compare">> ELSE <<>>) \o <<"rcv_config">>

\* the call of populate_element_hdr_arr, then the decoder's comparison
KeyedEvents(compared) ==
    <<"rcv_config">> \o (IF compared THEN <<"compare">> ELSE <<>>)

\* populate_element_hdr_arr receives a page, parses it, and the decoder runs
PopulateAndDecode ==
    /\ pc = "populate"
    /\ \E fc \in CfgFaultChoices(enc, shot.tgt), junk \in JunkBytes :
          LET buf == Buf(CfgResponse(enc, fc[1], fc[2]), junk)
              p   == populate_element_hdr_arr(buf, element_hdr_arr)
              ref == IF p.genset THEN p.gen ELSE ref_gen_code
              out == IF PopulateFailed(p.res) THEN NoOutput
                     ELSE DecodeKeyed(req.page_code, p.ehp, p.res, ref, rsp_buff,
                                      RespLen(rsp_buff), req.mode.inner_hex,
                                      req.mode.filter)
          IN  /\ cfg_resp' = buf
              /\ shot' = [shot EXCEPT !.cfg = Shot(enc, fc[1], fc[2])]
              /\ res' = p.res
              /\ element_hdr_arr' = p.ehp
              /\ ref_gen_code' = ref
              /\ output' = out
              /\ outcome' = IF PopulateFailed(p.res) THEN "Rejected" ELSE out.out
              /\ events' = events \o KeyedEvents(out.cmp)
    /\ pc' = "done"
    /\ ret' = ExitStatus(outcome')
    /\ UNCHANGED <<req, enc, rsp_buff, pureVars>>

Next ==
    \/ EnclosureChange
    \/ RcvTargetFail
    \/ RcvTarget
    \/ DispatchMismatch
    \/ DispatchRaw
    \/ DispatchHex
    \/ DispatchDecode
    \/ DispatchKeyed
    \/ PopulateRcvFail
    \/ PopulateAndDecode

Spec == Init /\ [][Next]_vars

----------------------------------------------------------------------------
(* The rendering of single status records: print_over_elem_status applied  *)
(* to one record of each element type, with and without --filter.          *)

RecByte0 == {1, 2, 5, 65, 82, 15}
RecByte1 == {0, 5, 131, 255}
RecByte2 == {0, 2, 7, 45, 160, 64, 33, 20, 255}
RecByte3 == {0, 18, 129, 255}

\* every element type of the switch, and one outside it
RecTypes == 0..23 \cup {85}

InitRec ==
    /\ ReqIdle("record")
    /\ CatInit
    /\ CtlInit
    /\ statp_in \in [statp : RecByte0 \X RecByte1 \X RecByte2 \X RecByte3,
                     etype : RecTypes, filter : BOOLEAN]
    /\ statp_out = <<>>

PrintRecord ==
    /\ pc = "record"
    /\ pc' = "printed"
    /\ statp_out' = print_over_elem_status(statp_in.statp, statp_in.etype,
                                           statp_in.filter)
    /\ UNCHANGED <<req, enc, rsp_buff, cfg_resp, element_hdr_arr, res,
                   ref_gen_code, events, shot, outcome, output, statp_in,
                   catVars, parses, ret, ctlVars>>

NextRec == PrintRecord

SpecRec == InitRec /\ [][NextRec]_vars

----------------------------------------------------------------------------
(* ses_threshold_helper on single threshold records *)

ThrBytes == {0, 1, 19, 20, 21, 45, 255}

\* the types with thresholds, a type without, and an unknown type
ThrTypes == {4, 11, 18, 19, 1, 85}

InitThr ==
    /\ ReqIdle("threshold")
    /\ CatInit
    /\ CtlInit
    /\ statp_in \in [statp : ThrBytes \X ThrBytes \X ThrBytes \X ThrBytes,
                     etype : ThrTypes, p_num : {-1, 0}, inner_hex : BOOLEAN]
    /\ statp_out = <<>>

PrintThreshold ==
    /\ pc = "threshold"
    /\ pc' = "thresholded"
    /\ statp_out' = ses_threshold_helper(statp_in.statp, statp_in.etype,
                                         statp_in.p_num, statp_in.inner_hex)
    /\ UNCHANGED <<req, enc, rsp_buff, cfg_resp, element_hdr_arr, res,
                   ref_gen_code, events, shot, outcome, output, statp_in,
                   catVars, parses, ret, ctlVars>>

NextThr == PrintThreshold

SpecThr == InitThr /\ [][NextThr]_vars

----------------------------------------------------------------------------
(* ses_transport_proto on single transport descriptors *)

\* byte 0 of a descriptor: FCP, SAS, both with high bits set, two others
TpProtoBytes == {0, 6, 240, 22, 1, 15, 255}

TpCounts == 0..3

\* byte 4 of a per-phy record
TpDevBytes == {0, 16, 48, 112, 143, 255}

\* a descriptor: protocol, length, count, a flag byte, the per-record bytes
TpDesc(b0, cnt, dev) ==
    LET per  == IF LowNibble(b0) = 0 THEN 8 + 16 * cnt
                ELSE IF LowNibble(b0) = 6 THEN 28 * cnt ELSE 4
        body == [i \in 1..per |->
                    IF LowNibble(b0) = 6 /\ i % 28 = 5 THEN dev ELSE i % 256]
    IN  <<b0, per + 2, cnt, 1>> \o body

InitTp ==
    /\ ReqIdle("transport")
    /\ CatInit
    /\ CtlInit
    /\ statp_in \in [desc : {TpDesc(b0, cnt, dev) : b0 \in TpProtoBytes,
                                 cnt \in TpCounts, dev \in TpDevBytes},
                     elem_num : {0, 1}]
    /\ statp_out = <<>>

PrintTransport ==
    /\ pc = "transport"
    /\ pc' = "transported"
    /\ statp_out' = ses_transport_proto(Buf(statp_in.desc, 0), 0,
                                        DescLen(statp_in.desc[2]),
                                        statp_in.elem_num)
    /\ UNCHANGED <<req, enc, rsp_buff, cfg_resp, element_hdr_arr, res,
                   ref_gen_code, events, shot, outcome, output, statp_in,
                   catVars, parses, ret, ctlVars>>

NextTp == PrintTransport

SpecTp == InitTp /\ [][NextTp]_vars

----------------------------------------------------------------------------
(* The lookups of the decoders into the fixed description tables: one byte *)
(* of a record, any of its 256 values, and one of the six places where a   *)
(* decoder indexes a table with bits of that byte.                         *)

\* table[idx] as the decoder at one of the six places reads it
Lookup(site, table, idx) ==
    [site |-> site, size |-> Len(table), idx |-> idx, text |-> TableAt(table, idx)]

InitIdx ==
    /\ ReqIdle("lookup")
    /\ CatInit
    /\ CtlInit
    /\ statp_in \in [byte : 0..255]
    /\ statp_out = <<>>

\* the table entry of a place is read
Looked(entry) ==
    /\ pc = "lookup"
    /\ pc' = "looked"
    /\ statp_out' = entry
    /\ UNCHANGED <<req, enc, rsp_buff, cfg_resp, element_hdr_arr, res,
                   ref_gen_code, events, shot, outcome, output, statp_in,
                   catVars, parses, ret, ctlVars>>

\* element_status_desc[statp[0] & 0xf]
LookupStatus ==
    Looked(Lookup("element_status_desc", element_status_desc,
                  StatusIdx(statp_in.byte)))

\* actual_speed_desc[7 & statp[3]]
LookupSpeed ==
    Looked(Lookup("actual_speed_desc", actual_speed_desc,
                  SpeedIdx(statp_in.byte)))

\* nv_cache_unit[statp[1] & 0x3]
LookupNvUnit ==
    Looked(Lookup("nv_cache_unit", nv_cache_unit, NvUnitIdx(statp_in.byte)))

\* invop_type_desc[(statp[1] >> 6) & 3]
LookupInvop ==
    Looked(Lookup("invop_type_desc", invop_type_desc,
                  InvopIdx(statp_in.byte)))

\* sas_device_type[(0x70 & per_ucp[4]) >> 4]
LookupSasDev ==
    Looked(Lookup("sas_device_type", sas_device_type,
                  SasDevIdx(statp_in.byte)))

\* transport_proto_arr[0xf & ucp[0]]
LookupProto ==
    Looked(Lookup("transport_proto_arr", transport_proto_arr,
                  ProtoIdx(statp_in.byte)))

NextIdx ==
    \/ LookupStatus
    \/ LookupSpeed
    \/ LookupNvUnit
    \/ LookupInvop
    \/ LookupSasDev
    \/ LookupProto

SpecIdx == InitIdx /\ [][NextIdx]_vars

----------------------------------------------------------------------------
(* The catalogs: find_page_code_desc and find_element_desc applied to      *)
(* every code a byte can hold.                                             *)

Catalogs == {"page", "element"}

InitCat ==
    /\ ReqIdle("lookup")
    /\ RecInit
    /\ cat_in \in [catalog : Catalogs, code : 0..255]
    /\ cat_out = ""
    /\ parses = <<>>
    /\ CtlInit

FindPageCodeDesc ==
    /\ pc = "lookup"
    /\ cat_in.catalog = "page"
    /\ pc' = "found"
    /\ cat_out' = find_page_code_desc(cat_in.code)
    /\ UNCHANGED <<req, enc, rsp_buff, cfg_resp, element_hdr_arr, res,
                   ref_gen_code, events, shot, outcome, output, recVars, cat_in,
                   parses, ret, ctlVars>>

FindElementDesc ==
    /\ pc = "lookup"
    /\ cat_in.catalog = "element"
    /\ pc' = "found"
    /\ cat_out' = find_element_desc(cat_in.code)
    /\ UNCHANGED <<req, enc, rsp_buff, cfg_resp, element_hdr_arr, res,
                   ref_gen_code, events, shot, outcome, output, recVars, cat_in,
                   parses, ret, ctlVars>>

NextCat == FindPageCodeDesc \/ FindElementDesc

SpecCat == InitCat /\ [][NextCat]_vars

----------------------------------------------------------------------------
(* The Configuration parser called again and again on one well-formed      *)
(* page, whatever an earlier call left in element_hdr_arr.                 *)

\* what earlier requests may have left in the shared array
Leftovers ==
    {<<>>} \cup {TopoHdrs(t) : t \in Topologies}
           \cup {[k \in 1..6 |-> ElemHdr(85, 9, 3)]}

\* what a caller of populate_element_hdr_arr gets: the count, the headers
\* below the count, and the generation code
ParseResult(r, ehp, gen) ==
    [res |-> r, hdrs |-> SubSeq(ehp, 1, Max(r, 0)), gen |-> gen]

InitParse ==
    /\ pc = "parse"
    /\ req = [page_code |-> 2, mode |-> Mode(FALSE, FALSE, FALSE, FALSE)]
    /\ enc \in [topo : Topologies, gen : InitGens, epoch : {0}]
    /\ rsp_buff = Buf(<<>>, 0)
    /\ \E junk \in JunkBytes : cfg_resp = Buf(CfgPage(enc.topo, enc.gen), junk)
    /\ element_hdr_arr \in Leftovers
    /\ res = 0
    /\ ref_gen_code = <<0, 0, 0, 0>>
    /\ events = <<>>
    /\ shot = [tgt |-> NoShot, cfg |-> NoShot]
    /\ outcome = "pending"
    /\ output = NoOutput
    /\ RecInit
    /\ cat_in = [catalog |-> "page", code |-> 0]
    /\ cat_out = ""
    /\ parses = <<>>
    /\ CtlInit

\* populate_element_hdr_arr receives the same page and parses it
ParseAgain ==
    /\ pc = "parse"
    /\ Len(parses) < MaxParses
    /\ LET p   == populate_element_hdr_arr(cfg_resp, element_hdr_arr)
           ref == IF p.genset THEN p.gen ELSE ref_gen_code
       IN  /\ res' = p.res
           /\ element_hdr_arr' = p.ehp
           /\ ref_gen_code' = ref
           /\ parses' = Append(parses, ParseResult(p.res, p.ehp, ref))
    /\ events' = Append(events, "rcv_config")
    /\ UNCHANGED <<pc, req, enc, rsp_buff, cfg_resp, shot, outcome, output,
                   recVars, catVars, ret, ctlVars>>

NextParse == ParseAgain

SpecParse == InitParse /\ [][NextParse]_vars

----------------------------------------------------------------------------
(* The control request: main with --control and --data.  The device has    *)
(* been opened and has answered the INQUIRY.                               *)

\* unsigned char data_arr[1024]
DataArrSize == 1024

\* read_hex: for (k = 0; k < 1024; ++k)
ReadHexMax == 1024

\* the payload lengths tried: short ones, and those around the array's end
CtlLengths == {1, 2, 3, 300, 1020, 1021, 1024, 1026}

CtlSeeds == {1, 200}

\* the numbers a hex string denotes, one per comma-separated field
Tokens(len, seed) == [i \in 1..len |-> (seed + i) % 256]

\* a field that sscanf reads as a number above 0xff
BadTokens == <<1, 256>>

CtlPageCodes == {0, 1, 2, 3, 4, 5, 6, 7, 10, 12, 63, 255}

CtlByte1 == {0, 1, 255}

(* read_hex for a hex string on the command line.  Every field is stored   *)
(* at arr[k] for k = 0 .. 1023; the loop ends by break at the last field,  *)
(* or with k = 1024 when there are more fields, and *arr_len = k + 1.      *)
read_hex(tokens) ==
    LET n      == Len(tokens)
        stored == Min(n, ReadHexMax)
    IN  IF n = 0 \/ \E k \in 1..stored : tokens[k] > 255
        THEN [err |-> TRUE, arr |-> <<>>, arr_len |-> 0]
        ELSE [err |-> FALSE, arr |-> SubSeq(tokens, 1, stored),
              arr_len |-> IF n <= ReadHexMax THEN n ELSE ReadHexMax + 1]

\* memset(data_arr, 0, sizeof(data_arr)), then the bytes stored at data_arr + 4
DataArrAfter(arr) ==
    [i \in 1..DataArrSize |->
        IF i > 4 /\ i - 4 <= Len(arr) THEN arr[i - 4] ELSE 0]

\* the bytes read_hex stored behind the end of data_arr
BeyondAfter(arr) ==
    IF Len(arr) + 4 > DataArrSize
    THEN SubSeq(arr, DataArrSize - 4 + 1, Len(arr))
    ELSE <<>>

\* data_arr[0..3] = page_code, byte1, arr_len >> 8, arr_len
ControlHeader(page_code, byte1, len) ==
    <<page_code, byte1, (len \div 256) % 256, len % 256>>

(* The outgoing_len bytes do_senddiag transfers from data_arr.  Bytes      *)
(* behind the end of the array are read from memory that is not part of    *)
(* it: what read_hex stored there if nothing has overwritten it since      *)
(* (kept), anything otherwise.                                             *)
Outgoing(arr, tail, outgoing_len, kept, junk) ==
    [i \in 1..outgoing_len |->
        IF i <= DataArrSize THEN arr[i]
        ELSE IF kept /\ i - DataArrSize <= Len(tail) THEN tail[i - DataArrSize]
        ELSE junk]

\* a switch that also sends the Help text page
ControlSupportedWithHelp(page_code) == page_code \in {2, 3, 4, 5, 6, 12}

\* the cases of switch (page_code) that call do_senddiag
ControlSupported(page_code) == page_code \in {2, 4, 5, 6, 12}

InitCtl ==
    /\ ReqIdle("options")
    /\ RecInit
    /\ CatInit
    /\ ret = 1
    /\ ctl \in [page_code : CtlPageCodes, byte1 : CtlByte1,
                 tokens : {Tokens(n, sd) : n \in CtlLengths, sd \in CtlSeeds}
                          \cup {BadTokens}]
    /\ data_arr = <<>>
    /\ beyond = <<>>
    /\ arr_len = 0
    /\ sent = <<>>

\* case 'd' of the options: read_hex fails, main returns 1
BadData ==
    /\ pc = "options"
    /\ read_hex(ctl.tokens).err
    /\ pc' = "done"
    /\ ret' = 1
    /\ UNCHANGED <<req, enc, rsp_buff, cfg_resp, element_hdr_arr, res,
                   ref_gen_code, events, shot, outcome, output, recVars,
                   catVars, parses, ctl, data_arr, beyond, arr_len, sent>>

\* case 'd' of the options: the payload is stored from data_arr + 4 on
ReadData ==
    /\ pc = "options"
    /\ LET r == read_hex(ctl.tokens)
       IN  /\ ~r.err
           /\ data_arr' = DataArrAfter(r.arr)
           /\ beyond' = BeyondAfter(r.arr)
           /\ arr_len' = r.arr_len
    /\ pc' = "control"
    /\ UNCHANGED <<req, enc, rsp_buff, cfg_resp, element_hdr_arr, res,
                   ref_gen_code, events, shot, outcome, output, recVars,
                   catVars, parses, ret, ctl, sent>>

\* the header is written and the page handed to do_senddiag, which may fail
SendControl ==
    /\ pc = "control"
    /\ ControlSupported(ctl.page_code)
    /\ LET hdr == ControlHeader(ctl.page_code, ctl.byte1, arr_len)
           arr == [i \in 1..DataArrSize |-> IF i <= 4 THEN hdr[i] ELSE data_arr[i]]
       IN  /\ data_arr' = arr
           /\ \E kept \in BOOLEAN, junk \in JunkBytes :
                 sent' = Append(sent, Outgoing(arr, beyond, arr_len + 4, kept, junk))
    /\ \E failed \in BOOLEAN : ret' = IF failed THEN 1 ELSE 0
    /\ pc' = "done"
    /\ UNCHANGED <<req, enc, rsp_buff, cfg_resp, element_hdr_arr, res,
                   ref_gen_code, events, shot, outcome, output, recVars,
                   catVars, parses, ctl, beyond, arr_len>>

\* default: "Setting SES control page 0x%x not supported yet"
RejectControl ==
    /\ pc = "control"
    /\ ~ControlSupported(ctl.page_code)
    /\ data_arr' = [i \in 1..DataArrSize |->
                       IF i <= 4
                       THEN ControlHeader(ctl.page_code, ctl.byte1, arr_len)[i]
                       ELSE data_arr[i]]
    /\ ret' = 0
    /\ pc' = "done"
    /\ UNCHANGED <<req, enc, rsp_buff, cfg_resp, element_hdr_arr, res,
                   ref_gen_code, events, shot, outcome, output, recVars,
                   catVars, parses, ctl, beyond, arr_len, sent>>

NextCtl == BadData \/ ReadData \/ SendControl \/ RejectControl

SpecCtl == InitCtl /\ [][NextCtl]_vars

----------------------------------------------------------------------------
(* Properties of the request *)

Done == pc = "done"

\* the request fetched the Configuration page and parsed it into a map
MapBuilt == shot.cfg.taken /\ res >= 0

\* bytes 4..7 of a received page
GenBytesOf(buf) == <<RB(buf, 4), RB(buf, 5), RB(buf, 6), RB(buf, 7)>>

\* the target page is long enough to hold a generation code
TargetHasGen == RespLen(rsp_buff) >= 8

GenMismatch == GenBytesOf(rsp_buff) # GenBytesOf(cfg_resp)

IsPrefixOf(s, t) == Len(s) <= Len(t) /\ s = SubSeq(t, 1, Len(s))

(* C1: for an element-keyed page whose generation code differs from the    *)
(* one of the Configuration page the map was built from, the request ends  *)
(* Stale and no element record of the page is decoded.                     *)
C1_StaleOnGenerationMismatch ==
    (Done /\ req.page_code \in ElementKeyed /\ MapBuilt /\ GenMismatch)
        => /\ output.recs = <<>>
           /\ TargetHasGen => outcome = "Stale"

C1_Witness ==
    /\ Done /\ req.page_code = 10 /\ MapBuilt /\ GenMismatch /\ TargetHasGen
    /\ shot.tgt.fault = "none" /\ shot.cfg.fault = "none"
    /\ outcome = "Stale"

C3_NoConfigFetchForIndependentPages ==
    req.page_code \in TopologyIndependent
        => /\ pc # "populate"
           /\ \A i \in DOMAIN events : events[i] = "rcv_target"
           /\ Len(events) <= 1
           /\ Done => Len(events) = 1
           /\ ~shot.cfg.taken /\ element_hdr_arr = <<>> /\ ~output.cmp

C3_Witness ==
    /\ Done /\ req.page_code = 11 /\ outcome = "Rendered" /\ output.recs # <<>>
    /\ events = <<"rcv_target">>

(* C4: the element map a decoder walks and the page it decodes come from   *)
(* the same generation of the enclosure: a request during which the        *)
(* enclosure changed between the two receives renders nothing, and ends    *)
(* Stale once the map is built and the page holds a generation code.       *)
C4_RenderOnlySameGeneration ==
    (Done /\ shot.cfg.taken)
        => /\ output.recs # <<>> => shot.tgt.epoch = shot.cfg.epoch
           /\ shot.tgt.epoch # shot.cfg.epoch => outcome # "Rendered"
           /\ (shot.tgt.epoch # shot.cfg.epoch /\ res >= 0 /\ TargetHasGen)
                 => outcome = "Stale"

C4_Witness ==
    /\ Done /\ shot.cfg.taken /\ shot.tgt.epoch # shot.cfg.epoch /\ res >= 0
    /\ shot.tgt.gen = <<255, 255, 255, 255>> /\ shot.cfg.gen = <<0, 0, 0, 0>>
    /\ outcome = "Stale"

\* a page decoder ran on the target page
Decoded == Done /\ outcome \in {"Rendered", "Truncated", "Stale"}

\* the result of the Configuration parse of this request
CfgParse == populate_element_hdr_arr(cfg_resp, <<>>)

(* C5: the Enclosure Status decoder (and the Threshold decoder, which      *)
(* walks the same way) decodes a 4-byte record, overall or individual,     *)
(* only if all 4 of its bytes lie within the declared page length.         *)
C5_RecordsWithinDeclaredLength ==
    (Decoded /\ req.page_code \in {2, 5})
        => \A i \in DOMAIN output.recs :
              output.recs[i].off + 4 <= RespLen(rsp_buff)

(* C6: in the variable-length walks (Element Descriptor, Subenclosure Help *)
(* Text, Subenclosure String) neither a 2-byte length field nor the bytes  *)
(* it announces are read at an offset at or beyond the total length.       *)
C6_VariableWalkWithinTotalLength ==
    (Decoded /\ req.page_code \in {7, 11, 12})
        => \A i \in DOMAIN output.recs :
              /\ output.recs[i].off + 3 < RespLen(rsp_buff)
              /\ output.recs[i].last < RespLen(rsp_buff)

(* C7: when the Configuration parser fails during an element-keyed         *)
(* request, the request is rejected: no decoder is invoked and no element  *)
(* record is rendered from the partly built map.                           *)
C7_ParserFailureRejectsPage ==
    (Done /\ req.page_code \in ElementKeyed /\ "rcv_config" \in
         {events[i] : i \in DOMAIN events}
        /\ (~shot.cfg.taken \/ CfgParse.err # "none"))
        => /\ outcome = "Rejected"
           /\ output = NoOutput
           /\ "compare" \notin {events[i] : i \in DOMAIN events}

\* the parse failed after headers had been stored
C7_Witness ==
    /\ Done /\ shot.cfg.taken /\ CfgParse.err = "truncated"
    /\ element_hdr_arr # <<>>
    /\ shot.tgt.fault = "none" /\ shot.tgt.epoch = shot.cfg.epoch
    /\ outcome = "Rejected"

(* C8: no parser or decoder reads a byte at an offset at or beyond the     *)
(* declared length of its page; in particular the Configuration parser and *)
(* the Device Element Status decoder read the generation code, and the     *)
(* Device decoder a transport descriptor, only below that length.          *)
C8_NoReadBeyondDeclaredLength ==
    /\ (Done /\ shot.cfg.taken /\ CfgPageCodeOk(cfg_resp))
          => CfgParse.maxoff < RespLen(cfg_resp)
    /\ (Decoded /\ req.page_code = 10) => output.maxoff < RespLen(rsp_buff)

(* C9: the Configuration parser succeeds on every well-formed              *)
(* Configuration page, also when the last declaration ends at the last     *)
(* byte of the page, and returns the declared headers in order, their      *)
(* count and the generation code.                                          *)
C9_WellFormedConfigurationParses ==
    (Done /\ shot.cfg.taken /\ shot.cfg.fault = "none")
        => /\ res = Len(shot.cfg.topo.types)
           /\ element_hdr_arr = TopoHdrs(shot.cfg.topo)
           /\ ref_gen_code = shot.cfg.gen

----------------------------------------------------------------------------
(* Properties of the rendering of one record *)

Printed == pc = "printed"

\* the pairs of all lines of a rendering, in order
Pairs(lines) == Concat(lines)

HasField(lines, label) == \E i \in DOMAIN Pairs(lines) : Pairs(lines)[i][1] = label

\* the value printed first under a label
Field(lines, label) ==
    LET ps == Pairs(lines)
        i  == CHOOSE m \in DOMAIN ps :
                 /\ ps[m][1] = label
                 /\ \A n \in DOMAIN ps : ps[n][1] = label => m <= n
    IN  ps[i][2]

\* bit n of a byte, as 0 or 1
BitOf(b, n) == (b \div (2 ^ n)) % 2

IsScenarioB ==
    Printed /\ statp_in.etype = 1 /\ statp_in.statp = <<1, 5, 160, 18>>

(* C10, as stated: the Device record [0x01, 0x05, 0xA0, 0x12] decodes to   *)
(* status Critical, predicted failure 0, slot address 5, App client        *)
(* bypassed A 1 and Enc bypassed A 0.                                       *)
C10_ScenarioB_AsStated ==
    (IsScenarioB /\ ~statp_in.filter)
        => /\ Field(statp_out, "status") = "Critical"
           /\ Field(statp_out, "Predicted failure") = 0
           /\ Field(statp_out, "Slot address") = 5
           /\ Field(statp_out, "App client bypassed A") = 1
           /\ Field(statp_out, "Enc bypassed A") = 0

(* C10, amended: the Device record [0x01, 0x05, 0xA0, 0x12] decodes to     *)
(* status OK, predicted failure 0, slot address 5, App client bypassed A 1 *)
(* and Enc bypassed A 1; for every Device record the status name is the    *)
(* entry of the enumeration Unsupported, OK, Critical, Non-critical,       *)
(* Unrecoverable, Not installed, Unknown, Not available, reserved [8..15]  *)
(* at the low 4 bits of byte 0, predicted failure is bit 6 of byte 0, the  *)
(* slot address is byte 1, and App client bypassed A, Do not remove and    *)
(* Enc bypassed A are bits 7, 6 and 5 of byte 2.                           *)
C10_DeviceRecordDecode ==
    (Printed /\ statp_in.etype = 1 /\ ~statp_in.filter)
        => LET b0 == statp_in.statp[1]
               b2 == statp_in.statp[3]
               names == <<"Unsupported", "OK", "Critical", "Non-critical",
                          "Unrecoverable", "Not installed", "Unknown",
                          "Not available", "reserved [8]", "reserved [9]",
                          "reserved [10]", "reserved [11]", "reserved [12]",
                          "reserved [13]", "reserved [14]", "reserved [15]">>
           IN  /\ Field(statp_out, "status") = names[(b0 % 16) + 1]
               /\ Field(statp_out, "Predicted failure") = BitOf(b0, 6)
               /\ Field(statp_out, "Slot address") = statp_in.statp[2]
               /\ Field(statp_out, "App client bypassed A") = BitOf(b2, 7)
               /\ Field(statp_out, "Do not remove") = BitOf(b2, 6)
               /\ Field(statp_out, "Enc bypassed A") = BitOf(b2, 5)
               /\ IsScenarioB
                    => /\ Field(statp_out, "status") = "OK"
                       /\ Field(statp_out, "Enc bypassed A") = 1

\* Scenario B has been printed: status OK, both bypass flags of port A set
C10_Witness ==
    /\ IsScenarioB /\ ~statp_in.filter
    /\ Field(statp_out, "status") = "OK"
    /\ Field(statp_out, "Slot address") = 5
    /\ Field(statp_out, "App client bypassed A") = 1
    /\ Field(statp_out, "Enc bypassed A") = 1

(* C11: for every Temperature sensor record, byte 2 equal to 0 is rendered *)
(* as reserved, and every other byte 2 value b as the temperature b - 20   *)
(* degrees Celsius: 45 gives 25, and the values 1..19 give negative        *)
(* temperatures.                                                           *)
C11_TemperatureOffset ==
    (Printed /\ statp_in.etype = 4)
        => LET b == statp_in.statp[3]
           IN  /\ b = 0 => /\ HasField(statp_out, "Temperature")
                           /\ Field(statp_out, "Temperature") = "<reserved>"
                           /\ ~HasField(statp_out, "Temperature C")
               /\ b # 0 => /\ HasField(statp_out, "Temperature C")
                           /\ Field(statp_out, "Temperature C") = b - 20
                           /\ ~HasField(statp_out, "Temperature")
               /\ b = 45 => Field(statp_out, "Temperature C") = 25
               /\ b \in 1..19 => Field(statp_out, "Temperature C") < 0

\* a temperature below zero has been printed
C11_Witness ==
    /\ Printed /\ statp_in.etype = 4 /\ statp_in.statp[3] = 7
    /\ HasField(statp_out, "Temperature C")
    /\ Field(statp_out, "Temperature C") = -13

\* a Supported pages decoder ran on the page asked for
SupportedDecoded ==
    Done /\ req.page_code \in {0, 13} /\ outcome = "Rendered"

(* C12: the Supported pages decoder reports the page-code bytes from       *)
(* offset 4 in order and stops at the first byte that is less than its     *)
(* predecessor: the reported codes are the longest non-decreasing prefix   *)
(* of the payload, and the bytes 0, 1, 2, 0 give exactly 0, 1, 2.          *)
C12_SupportedPagesPrefix ==
    SupportedDecoded
        => LET n == Len(output.recs)
               payload_len == Max(RespLen(rsp_buff) - 4, 0)
           IN  /\ n <= payload_len
               /\ \A i \in 1..n : output.recs[i] = RB(rsp_buff, i + 3)
               /\ \A i \in 1..(n - 1) : output.recs[i] <= output.recs[i + 1]
               /\ n = 0 => payload_len = 0
               /\ (n > 0 /\ n < payload_len)
                     => RB(rsp_buff, n + 4) < RB(rsp_buff, n + 3)
               /\ (RespLen(rsp_buff) = 8
                   /\ Quad(rsp_buff, 4) = <<0, 1, 2, 0>>)
                     => output.recs = <<0, 1, 2>>

\* the payload 0, 1, 2, 0 has been decoded and the walk stopped after 2
C12_Witness ==
    /\ SupportedDecoded
    /\ RespLen(rsp_buff) = 8 /\ Quad(rsp_buff, 4) = <<0, 1, 2, 0>>
    /\ output.recs = <<0, 1, 2>>

----------------------------------------------------------------------------
(* Properties of the catalogs *)

Found == pc = "found"

\* the codes and descriptions of the catalog looked up
CatalogEntries ==
    IF cat_in.catalog = "page"
    THEN [k \in DOMAIN pc_desc_arr |->
             <<pc_desc_arr[k].page_code, pc_desc_arr[k].desc>>]
    ELSE [k \in DOMAIN element_desc_arr |->
             <<element_desc_arr[k].type_code, element_desc_arr[k].desc>>]

(* C13: in both catalogs adjacent entries have strictly increasing codes,  *)
(* and for every code 0..255 the lookup returns the description of the     *)
(* entry whose code is equal, or nothing when there is none, never a       *)
(* neighbouring entry; the lookup of an element type succeeds exactly for  *)
(* the codes 0x00..0x17.                                                   *)
C13_CatalogLookupExact ==
    Found
        => LET e == CatalogEntries
               hits == {k \in DOMAIN e : e[k][1] = cat_in.code}
           IN  /\ \A k \in 1..(Len(e) - 1) : e[k][1] < e[k + 1][1]
               /\ \A k \in DOMAIN e : e[k][2] # ""
               /\ hits # {} => \E k \in hits : cat_out = e[k][2]
               /\ hits = {} => cat_out = ""
               /\ cat_in.catalog = "element"
                     => (cat_out # "" <=> cat_in.code \in 0..23)

\* a code behind the gap 0x0e..0x3e of the page catalog has been found
C13_Witness ==
    /\ Found /\ cat_in.catalog = "page"
    /\ cat_in.code = 63 /\ cat_out = "Protocol specific SAS (SAS-1)"

----------------------------------------------------------------------------
(* Properties of the repeated parse *)

(* C14: parsing the same valid Configuration page twice in succession      *)
(* gives the same count of element type headers, the same header in every  *)
(* position and the same generation code; what a parse returns does not    *)
(* depend on what an earlier parse left in element_hdr_arr.                *)
C14_ParserIdempotent ==
    /\ \A i \in DOMAIN parses : parses[i] = parses[1]
    /\ \A i \in DOMAIN parses :
          /\ parses[i].gen = enc.gen
          /\ parses[i].res >= 0
                => /\ parses[i].res = Len(enc.topo.types)
                   /\ parses[i].hdrs = TopoHdrs(enc.topo)

\* a page has been parsed twice, with success, into an array that held the
\* headers of another topology
C14_Witness ==
    /\ Len(parses) = 2
    /\ parses[2].res > 0
    /\ parses[2].hdrs = TopoHdrs(enc.topo)
    /\ Len(element_hdr_arr) > parses[2].res

\* the number of times the event e was logged
Count(e) == Cardinality({i \in DOMAIN events : events[i] = e})

\* the receive of the Configuration page failed
CfgRcvFailed ==
    /\ Count("rcv_config") > 0
    /\ ~shot.cfg.taken

(* C17: a failed receive of the target page or of the Configuration page   *)
(* ends the request at once: no decoder runs, nothing is rendered and the  *)
(* receive is not repeated; a request issues at most one receive of the    *)
(* target page and at most one of the Configuration page.                  *)
C17_TransportFailureAborts ==
    /\ Count("rcv_target") <= 1
    /\ Count("rcv_config") <= 1
    /\ (Count("rcv_target") > 0 /\ ~shot.tgt.taken)
          => /\ Done
             /\ outcome = "TransportError"
             /\ output = NoOutput
             /\ events = <<"rcv_target">>
    /\ CfgRcvFailed
          => /\ Done
             /\ outcome = "Rejected"
             /\ output = NoOutput
             /\ res = -1
             /\ events = <<"rcv_target", "rcv_config">>

\* the Configuration page could not be received for an element-keyed page
C17_Witness ==
    /\ Done
    /\ shot.tgt.taken /\ shot.tgt.fault = "none"
    /\ CfgRcvFailed
    /\ req.page_code = 2

(* C18: when the page received carries another page code in byte 0 than    *)
(* the one requested (the target page in every mode, raw and hex           *)
(* included, or the Configuration page fetched for an element-keyed page), *)
(* the request ends in an error of its own kind and no page decoder is     *)
(* applied to the bytes: nothing is rendered, no generation is compared.   *)
C18_PageCodeMismatchNotDecoded ==
    /\ (Done /\ shot.tgt.taken /\ RB(rsp_buff, 0) # req.page_code)
          => /\ outcome = "BadPageCode"
             /\ output.out = "none" /\ output.recs = <<>> /\ ~output.cmp
             /\ events = <<"rcv_target">>
    /\ (Done /\ shot.cfg.taken /\ RB(cfg_resp, 0) # 1)
          => /\ outcome = "Rejected"
             /\ output = NoOutput
             /\ res = -1
             /\ events = <<"rcv_target", "rcv_config">>

\* a raw request answered with the page of another page code
C18_Witness ==
    /\ Done
    /\ req.mode.do_raw
    /\ shot.tgt.taken /\ shot.tgt.fault = "other_page"
    /\ RB(rsp_buff, 0) = 63
    /\ outcome = "BadPageCode"

\* an element-keyed request whose Configuration page came with another code
C18_ConfigWitness ==
    /\ Done
    /\ shot.cfg.taken /\ shot.cfg.fault = "other_page"
    /\ RB(cfg_resp, 0) = 63
    /\ outcome = "Rejected"

\* the outcomes that are failures of the request
HardFailures == {"Truncated", "Rejected", "TransportError"}

(* C19: what the program returns for a request that ended on a generation  *)
(* mismatch differs from what it returns for a truncated page, a rejected  *)
(* page or a failed receive.                                               *)
C19_StaleReportedDistinctly ==
    (Done /\ outcome \in HardFailures) => ret # ExitStatus("Stale")

\* the subenclosure descriptors of a topology that are shorter than 40 bytes
ShortSubs(topo) == {k \in 0..(Len(topo.subs) - 1) : topo.subs[k + 1].dlen + 4 < 40}

RECURSIVE SumOver(_, _)
SumOver(f, n) == IF n = 0 THEN 0 ELSE f[n] + SumOver(f, n - 1)

\* the page goes on behind its last element type declaration
TextFollows(topo) == \E i \in DOMAIN topo.types : topo.types[i].text # <<>>

\* the Configuration page was received as the enclosure built it
CfgUndisturbed == shot.cfg.taken /\ shot.cfg.fault = "none"

(* C20: a subenclosure descriptor of the Configuration page whose declared *)
(* size, the length byte plus 4, is below 40 does not end the parse: it is *)
(* flagged, the cursor moves on by the declared size, its number of        *)
(* element types is added to the sum, and the descriptors behind it and    *)
(* all the element type declarations are parsed.                           *)
C20_ShortDescriptorDoesNotAbort ==
    (Done /\ CfgUndisturbed /\ ShortSubs(shot.cfg.topo) # {}
          /\ TextFollows(shot.cfg.topo))
        => LET topo == shot.cfg.topo
               p    == CfgParse
               n    == Len(topo.subs)
           IN  /\ p.sub.flagged = ShortSubs(topo)
               /\ p.sub.walked = n
               /\ p.sub.ucp = 8 + SumOver([k \in 1..n |-> topo.subs[k].dlen + 4], n)
               /\ p.sub.sum = SumOver([k \in 1..n |-> topo.subs[k].ntypes], n)
               /\ p.err = "none"
               /\ res = Len(topo.types)
               /\ \A k \in 1..res : element_hdr_arr[k] = TopoHdrs(topo)[k]
               /\ outcome # "Rejected"

\* a page with a short descriptor in front of a full one has been parsed
C20_Witness ==
    /\ Done
    /\ CfgUndisturbed
    /\ ShortSubs(shot.cfg.topo) = {0}
    /\ Len(shot.cfg.topo.subs) = 2
    /\ CfgParse.sub.flagged = {0}
    /\ res = 3

\* the Enclosure Status page was decoded against the element map
StatusDecoded ==
    /\ Done
    /\ req.page_code = 2
    /\ outcome \in {"Rendered", "Truncated"}
    /\ ~req.mode.do_raw /\ ~req.mode.do_hex
    /\ MapBuilt

\* the number of 4-byte records of the headers 0 .. k - 1 of the map
RecordsBefore(k) ==
    SumOver([h \in 1..k |-> 1 + Ehp(element_hdr_arr, h - 1).num_elements], k)

\* the map holds a header of an element type above 0x17
UnknownTypeAt(k) == k < res /\ Ehp(element_hdr_arr, k).etype \notin 0..23

(* C21: a header of an element type outside 0x00 .. 0x17 does not end the  *)
(* decode of the Enclosure Status page: its records are printed in hex,    *)
(* they take 4 * (1 + number of possible elements) bytes like those of a   *)
(* known type, and the records of the headers behind it are decoded at the *)
(* offsets the counts of the map give.                                     *)
C21_UnknownTypeNotFatal ==
    StatusDecoded
        => /\ \A i \in DOMAIN output.recs :
                 LET r == output.recs[i]
                     h == Ehp(element_hdr_arr, r.hdr)
                 IN  /\ r.hdr < res
                     /\ r.elem <= h.num_elements
                     /\ r.etype = h.etype
                     /\ r.off = 8 + 4 * (i - 1)
                     /\ r.off = 8 + 4 * RecordsBefore(r.hdr) + 4 * r.elem
                     /\ (r.etype \notin 0..23 /\ ~req.mode.inner_hex)
                           => r.lines =
                                <<CommonLine(r.bytes),
                                  << <<"Unknown element type, status in hex",
                                       r.bytes>> >> >>
           /\ outcome = "Rendered" => Len(output.recs) = RecordsBefore(res)
           /\ \A k \in 0..(res - 1) :
                 (8 + 4 * RecordsBefore(k) + 4 <= RespLen(rsp_buff) - 1)
                     => \E i \in DOMAIN output.recs :
                           output.recs[i].hdr = k /\ output.recs[i].elem = 0

\* records of a known type were decoded behind those of an unknown type
C21_Witness ==
    /\ StatusDecoded
    /\ ~req.mode.inner_hex
    /\ UnknownTypeAt(0)
    /\ outcome = "Rendered"
    /\ Len(output.recs) = 7
    /\ output.recs[2].etype = 24 /\ output.recs[2].off = 12
    /\ output.recs[3].etype = 19 /\ output.recs[3].off = 16
    /\ output.recs[4].off = 20

\* what the record gives without --filter
Unfiltered == print_over_elem_status(statp_in.statp, statp_in.etype, FALSE)

(* C22: with --filter a group of flags is left out only if every flag      *)
(* printed in it is 0: a line of the unfiltered rendering that the         *)
(* filtered rendering lacks holds no value other than 0, and the filtered  *)
(* rendering holds nothing the unfiltered one lacks.                       *)
C22_FilterSuppressesOnlyAllZero ==
    (Printed /\ statp_in.filter)
        => /\ \A n \in DOMAIN Unfiltered :
                 (\A m \in DOMAIN statp_out : statp_out[m] # Unfiltered[n])
                     => \A i \in DOMAIN Unfiltered[n] : Unfiltered[n][i][2] = 0
           /\ \A m \in DOMAIN statp_out :
                 \E n \in DOMAIN Unfiltered : Unfiltered[n] = statp_out[m]

\* the Threshold In page was decoded against the element map
ThresholdDecoded ==
    /\ Done
    /\ req.page_code = 5
    /\ outcome \in {"Rendered", "Truncated"}
    /\ ~req.mode.do_raw /\ ~req.mode.do_hex
    /\ MapBuilt

\* the walk of the Enclosure Status decoder over the same map and bytes
StatusWalk ==
    ses_enclosure_sdg(element_hdr_arr, res, ref_gen_code, rsp_buff,
                      RespLen(rsp_buff), TRUE, FALSE)

(* C23: the Threshold decoder walks the element map as the Enclosure       *)
(* Status decoder does, one overall 4-byte record and then one 4-byte      *)
(* record for each possible element of a header; outside inner-hex mode    *)
(* it prints thresholds for the types Temperature (0x04), UPS (0x0b),      *)
(* Voltage (0x12) and Current (0x13) only, and the cursor moves 4 bytes    *)
(* for each record of every type.                                          *)
C23_ThresholdTraversal ==
    ThresholdDecoded
        => /\ output.out = StatusWalk.out
           /\ Len(output.recs) = Len(StatusWalk.recs)
           /\ \A i \in DOMAIN output.recs :
                 LET r == output.recs[i]
                     t == StatusWalk.recs[i]
                 IN  /\ r.hdr = t.hdr /\ r.elem = t.elem /\ r.off = t.off
                     /\ r.etype = Ehp(element_hdr_arr, r.hdr).etype
                     /\ r.off = 8 + 4 * (i - 1)
                     /\ r.off = 8 + 4 * RecordsBefore(r.hdr) + 4 * r.elem
                     /\ ~req.mode.inner_hex
                           => (r.lines # <<>> <=> r.etype \in {4, 11, 18, 19})

\* thresholds of a UPS were printed behind the records of an array device
C23_Witness ==
    /\ ThresholdDecoded
    /\ ~req.mode.inner_hex
    /\ outcome = "Rendered"
    /\ Len(output.recs) = 6
    /\ output.recs[2].etype = 23 /\ output.recs[2].lines = <<>>
    /\ output.recs[3].etype = 11 /\ output.recs[3].off = 16
    /\ output.recs[3].lines # <<>>
    /\ output.recs[6].etype = 18 /\ output.recs[6].off = 28

\* a threshold record has been printed outside inner-hex mode
Thresholded == pc = "thresholded" /\ ~statp_in.inner_hex

\* a temperature threshold byte as it is to be printed
TempRef(b) == [text |-> IF b = 0 THEN "<res>" ELSE "%d", num |-> b - 20]

\* a UPS threshold byte as it is to be printed
MinutesRef(b) == [text |-> IF b = 0 THEN "<vendor>" ELSE "%d", num |-> b]

ThrLabels == <<"high critical", "high warning", "low warning", "low critical">>

\* the threshold under the label n is printed, and printed as v
ThrShows(n, v) ==
    HasField(statp_out, ThrLabels[n]) /\ Field(statp_out, ThrLabels[n]) = v

(* C24 as the specification states it: each of the four bytes of a         *)
(* Temperature threshold record is printed minus 20, 0 as reserved; byte 0 *)
(* of a UPS record is the sentinel, 0 printed as vendor-specific and any   *)
(* other value as minutes; each byte of a Voltage and of a Current record  *)
(* is printed as half percents.                                            *)
C24_ThresholdValuesAsStated ==
    Thresholded
        => LET tp == statp_in.statp
           IN  /\ statp_in.etype = 4
                     => \A n \in 1..4 : ThrShows(n, TempRef(tp[n]))
               /\ statp_in.etype = 11
                     => \E n \in 1..4 : ThrShows(n, MinutesRef(tp[1]))
               /\ statp_in.etype \in {18, 19}
                     => \A n \in 1..4 : ThrShows(n, 5 * tp[n])

(* C24: each of the four bytes b of a Temperature threshold record is      *)
(* printed as b - 20 degrees Celsius and as reserved for b = 0; of a UPS   *)
(* record bytes 2 and 3 are printed, as low warning and low critical in    *)
(* minutes, 0 as vendor-specific, and bytes 0 and 1 are not printed; each  *)
(* byte b of a Voltage record is printed as b * 0.5 percent; of a Current  *)
(* record bytes 0 and 1 are printed as b * 0.5 percent, as high critical   *)
(* and high warning, and bytes 2 and 3 are not printed.                    *)
C24_ThresholdValues ==
    Thresholded
        => LET tp == statp_in.statp
           IN  /\ statp_in.etype = 4
                     => \A n \in 1..4 : ThrShows(n, TempRef(tp[n]))
               /\ statp_in.etype = 11
                     => /\ ThrShows(3, MinutesRef(tp[3]))
                        /\ ThrShows(4, MinutesRef(tp[4]))
                        /\ ~HasField(statp_out, "high critical")
                        /\ ~HasField(statp_out, "high warning")
               /\ statp_in.etype = 18
                     => \A n \in 1..4 : ThrShows(n, 5 * tp[n])
               /\ statp_in.etype = 19
                     => /\ ThrShows(1, 5 * tp[1])
                        /\ ThrShows(2, 5 * tp[2])
                        /\ ~HasField(statp_out, "low warning")
                        /\ ~HasField(statp_out, "low critical")
               /\ statp_in.etype \notin {4, 11, 18, 19} => statp_out = <<>>

\* a UPS record with byte 0 at 0 and thresholds of 0 and 45 minutes
C24_Witness ==
    /\ Thresholded
    /\ statp_in.etype = 11
    /\ statp_in.statp = <<0, 21, 0, 45>>
    /\ Field(statp_out, "low warning").text = "<vendor>"
    /\ Field(statp_out, "low critical") = [text |-> "%d", num |-> 45]

\* bytes 2 and 3 of the record as one big-endian two's complement number
Signed16Ref(hi, lo) ==
    LET v == 256 * hi + lo
    IN  IF v >= 32768 THEN v - 65536 ELSE v

(* C25: for every status record, a Voltage and a Current reading is bytes  *)
(* 2-3 taken as one big-endian 16-bit two's complement number, in          *)
(* hundredths of a unit (0xffff is -1); the Cooling speed is               *)
(* (((byte 1 & 3) << 8) | byte 2) * 10 rpm, 0 to 10230, with the           *)
(* descriptor chosen by the low 3 bits of byte 3; the UPS battery byte 0   *)
(* means discharged or unknown, 255 means 255 or more minutes, any other   *)
(* value is the minutes.                                                   *)
C25_StatusNumericTransforms ==
    Printed
        => LET b1 == statp_in.statp[2]
               b2 == statp_in.statp[3]
               b3 == statp_in.statp[4]
           IN  /\ statp_in.etype = 18
                     => /\ HasField(statp_out, "Voltage")
                        /\ Field(statp_out, "Voltage") = Signed16Ref(b2, b3)
                        /\ Field(statp_out, "Voltage") \in -32768..32767
                        /\ (b2 = 255 /\ b3 = 255)
                              => Field(statp_out, "Voltage") = -1
               /\ statp_in.etype = 19
                     => /\ HasField(statp_out, "Current")
                        /\ Field(statp_out, "Current") = Signed16Ref(b2, b3)
                        /\ Field(statp_out, "Current") \in -32768..32767
               /\ statp_in.etype = 3
                     => /\ HasField(statp_out, "Actual speed rpm")
                        /\ Field(statp_out, "Actual speed rpm")
                              = ((b1 % 4) * 256 + b2) * 10
                        /\ Field(statp_out, "Actual speed rpm") \in 0..10230
                        /\ HasField(statp_out, "Fan")
                        /\ Field(statp_out, "Fan")
                              = <<"stopped", "at lowest speed",
                                  "at second lowest speed",
                                  "at third lowest speed",
                                  "at intermediate speed",
                                  "at third highest speed",
                                  "at second highest speed",
                                  "at highest speed">>[(b3 % 8) + 1]
               /\ statp_in.etype = 11
                     => /\ b1 = 0
                              => /\ HasField(statp_out, "Battery status")
                                 /\ Field(statp_out, "Battery status")
                                       = "discharged or unknown"
                        /\ b1 = 255
                              => /\ HasField(statp_out, "Battery status")
                                 /\ Field(statp_out, "Battery status")
                                       = "255 or more minutes remaining"
                        /\ b1 \in 1..254
                              => /\ ~HasField(statp_out, "Battery status")
                                 /\ Field(statp_out,
                                          "Battery status minutes remaining") = b1

\* a voltage reading of 0xffff has been printed as -1 hundredth of a volt
C25_Witness ==
    /\ Printed
    /\ statp_in.etype = 18
    /\ statp_in.statp[3] = 255 /\ statp_in.statp[4] = 255
    /\ Field(statp_out, "Voltage") = -1

\* the Device Element Status page was decoded against the element map
DeviceDecoded ==
    /\ Done
    /\ req.page_code = 10
    /\ outcome \in {"Rendered", "Truncated"}
    /\ ~req.mode.do_raw /\ ~req.mode.do_hex
    /\ MapBuilt

\* the descriptors decoded for header k of the map
DescsOf(k) == {i \in DOMAIN output.recs : output.recs[i].hdr = k}

(* C26: the Device Element Status decoder decodes transport descriptors    *)
(* for the headers of type Device (0x01) and Array Device (0x17) only: a   *)
(* header of another type takes no bytes of the page and prints nothing;   *)
(* for a Device or Array Device header it decodes one descriptor for each  *)
(* possible element, moving the cursor by the descriptor's length byte     *)
(* plus 2, so that each descriptor starts where the one before it ended.   *)
C26_DeviceElementTraversal ==
    DeviceDecoded
        => /\ \A i \in DOMAIN output.recs :
                 LET r == output.recs[i]
                     h == Ehp(element_hdr_arr, r.hdr)
                 IN  /\ r.hdr < res
                     /\ h.etype \in {1, 23} /\ r.etype = h.etype
                     /\ r.elem \in 1..h.num_elements
                     /\ r.len = RB(rsp_buff, r.off + 1) + 2
                     /\ r.off = IF i = 1 THEN 8
                                ELSE output.recs[i - 1].off + output.recs[i - 1].len
                     /\ i > 1 => \/ /\ output.recs[i - 1].hdr = r.hdr
                                     /\ output.recs[i - 1].elem + 1 = r.elem
                                  \/ /\ output.recs[i - 1].hdr < r.hdr
                                     /\ r.elem = 1
           /\ \A k \in 0..(res - 1) :
                 LET h == Ehp(element_hdr_arr, k)
                 IN  /\ h.etype \notin {1, 23} => DescsOf(k) = {}
                     /\ Cardinality(DescsOf(k)) \in {0, h.num_elements}
                     /\ (outcome = "Rendered" /\ h.etype \in {1, 23})
                           => Cardinality(DescsOf(k)) = h.num_elements

\* two descriptors of a Device header behind headers of other types
C26_Witness ==
    /\ DeviceDecoded
    /\ outcome = "Rendered"
    /\ res = 3
    /\ Ehp(element_hdr_arr, 0).etype = 24 /\ Ehp(element_hdr_arr, 1).etype = 19
    /\ Len(output.recs) = 2
    /\ output.recs[1].hdr = 2 /\ output.recs[1].off = 8
    /\ output.recs[1].len = 32
    /\ output.recs[2].hdr = 2 /\ output.recs[2].off = 40

\* a transport descriptor has been decoded
Transported == pc = "transported"

(* C27: in the decode of a SAS transport descriptor the label printed for  *)
(* each per-phy record is the number of phys plus 1, the same for every    *)
(* record of the descriptor, and not the position of the record (loop      *)
(* index plus 1), which is what the loop over the Fibre Channel ports      *)
(* prints.                                                                 *)
C27_SasPhyLabelFromCount ==
    Transported
        => LET cnt == statp_in.desc[3]
           IN  /\ statp_in.desc[1] % 16 = 6
                     => /\ Len(statp_out.labels) = cnt
                        /\ \A j \in 1..cnt : statp_out.labels[j] = cnt + 1
                        /\ cnt >= 2 => \E j \in 1..cnt : statp_out.labels[j] # j
               /\ statp_in.desc[1] % 16 = 0
                     => /\ Len(statp_out.labels) = cnt
                        /\ \A j \in 1..cnt : statp_out.labels[j] = j

\* three per-phy records, each labelled 4
C27_Witness ==
    /\ Transported
    /\ statp_in.desc[1] = 6
    /\ statp_in.desc[3] = 3
    /\ statp_out.labels = <<4, 4, 4>>

\* both pages were received as one state of the enclosure built them
BothUndisturbed ==
    /\ shot.tgt.taken /\ shot.tgt.fault = "none"
    /\ CfgUndisturbed
    /\ shot.tgt.epoch = shot.cfg.epoch

(* C28: an Enclosure Status or Threshold In page whose declared length     *)
(* covers exactly the records of all headers of the element map is decoded *)
(* to its end and not reported as too short, also when the last header has *)
(* no possible elements and its overall record is the last 4 bytes of the  *)
(* page.                                                                   *)
C28_ExactLengthPageDecoded ==
    ((StatusDecoded \/ ThresholdDecoded) /\ BothUndisturbed
        /\ RespLen(rsp_buff) = 8 + 4 * RecordsBefore(res))
        => /\ outcome = "Rendered"
           /\ Len(output.recs) = RecordsBefore(res)

\* the Configuration page declares more element types than the array holds
DeclaresTooMany == shot.cfg.taken /\ CfgParse.sub.sum > MX_ELEM_HDR

(* C29: the Configuration parser stores no header at an index at or beyond *)
(* the 512 entries of element_hdr_arr: for every page, also one whose      *)
(* subenclosure descriptors declare more than 512 element types, either    *)
(* all headers lie at the indexes 0 .. 511 and the count returned is at    *)
(* most 512, or the parse fails and no decoder takes the map; the count a  *)
(* decoder gets is never above the number of headers stored.               *)
C29_HeaderArrayBounded ==
    /\ Len(element_hdr_arr) <= MX_ELEM_HDR
    /\ shot.cfg.taken => CfgParse.maxoff >= 3 /\ Len(CfgParse.ehp) <= MX_ELEM_HDR
    /\ (Done /\ MapBuilt)
          => /\ res <= MX_ELEM_HDR
             /\ res <= Len(element_hdr_arr)
             /\ \A i \in DOMAIN output.recs : output.recs[i].hdr < res
    /\ (Done /\ DeclaresTooMany)
          => /\ res = -1
             /\ outcome = "Rejected"
             /\ output = NoOutput
             /\ "compare" \notin {events[i] : i \in DOMAIN events}

\* a page declaring 513 element types was parsed up to the end of the array
C29_Witness ==
    /\ Done
    /\ DeclaresTooMany
    /\ CfgParse.sub.sum = MX_ELEM_HDR + 1
    /\ CfgParse.err = "too_many"
    /\ Len(element_hdr_arr) = MX_ELEM_HDR
    /\ outcome = "Rejected"

\* a table entry was read
LookedUp == pc = "looked"

\* the bits of byte b from bit lo up, width of them, as a number
BitsRef(b, lo, width) == (b \div Pow2(lo)) % Pow2(width)

\* the number of entries and the index bits the statement gives for a table
StatedLookup(site, b) ==
    CASE site = "element_status_desc" -> [size |-> 16, idx |-> BitsRef(b, 0, 4)]
      [] site = "actual_speed_desc" -> [size |-> 8, idx |-> BitsRef(b, 0, 3)]
      [] site = "nv_cache_unit" -> [size |-> 4, idx |-> BitsRef(b, 0, 2)]
      [] site = "invop_type_desc" -> [size |-> 4, idx |-> BitsRef(b, 6, 2)]
      [] site = "sas_device_type" -> [size |-> 8, idx |-> BitsRef(b, 4, 3)]
      [] site = "transport_proto_arr" -> [size |-> 16, idx |-> BitsRef(b, 0, 4)]

(* C30: for each of the 256 values of a record byte, each lookup into a    *)
(* fixed description table uses an index inside the table: element status  *)
(* (byte & 0xf, 16 entries), fan speed (byte & 7, 8 entries), non-volatile *)
(* cache unit (byte & 3, 4 entries), invalid-operation type ((byte >> 6) & *)
(* 3, 4 entries), SAS device type ((byte & 0x70) >> 4, 8 entries) and      *)
(* transport protocol name (byte & 0xf, 16 entries); an entry of the       *)
(* table is what is read, never what lies behind it.                       *)
C30_TableIndexInBounds ==
    LookedUp
      => LET stated == StatedLookup(statp_out.site, statp_in.byte)
         IN  /\ statp_out.size = stated.size
             /\ statp_out.idx = stated.idx
             /\ statp_out.idx \in 0..(statp_out.size - 1)
             /\ statp_out.text # "<beyond the table>"

\* the byte 0xff reads the last entry of the SAS device type table
C30_Witness ==
    /\ LookedUp
    /\ statp_in.byte = 255
    /\ statp_out.site = "sas_device_type"
    /\ statp_out.idx = 7
    /\ statp_out.text = "reserved [7]"

----------------------------------------------------------------------------
(* Properties of the control request *)

\* the control request has run to its end with a payload read_hex accepted
Controlled == pc = "done" /\ ~read_hex(ctl.tokens).err

(* C15: for every supported control page code, every byte 1 and every      *)
(* payload of length L, the bytes handed to the transport are the page     *)
(* code, byte 1, L as 2 bytes, most significant first, and the payload;    *)
(* read back through the header parse of the status path they give the     *)
(* same page code, the same byte 1, a total length of L + 4 and the        *)
(* payload in bytes 4 .. L + 3.                                            *)
C15_ControlRoundTrip ==
    (Controlled /\ ControlSupported(ctl.page_code))
        => \A n \in DOMAIN sent :
              LET L   == Len(ctl.tokens)
                  buf == Buf(sent[n], 0)
              IN  /\ sent[n] = <<ctl.page_code, ctl.byte1,
                                 (L \div 256) % 256, L % 256>> \o ctl.tokens
                  /\ RB(buf, 0) = ctl.page_code
                  /\ RB(buf, 1) = ctl.byte1
                  /\ RespLen(buf) = L + 4
                  /\ \A i \in 1..L : RB(buf, i + 3) = ctl.tokens[i]

(* C16: a control request for a page code other than 0x02, 0x04, 0x05,     *)
(* 0x06 and 0x0c is rejected without any send; for each of these five      *)
(* codes exactly one send is issued, of the payload length read_hex        *)
(* reported plus 4 bytes.                                                  *)
C16_UnsupportedControlPageNotSent ==
    /\ Len(sent) <= 1
    /\ ctl.page_code \notin {2, 4, 5, 6, 12} => sent = <<>>
    /\ (Controlled /\ ctl.page_code \in {2, 4, 5, 6, 12})
          => /\ Len(sent) = 1
             /\ Len(sent[1]) = arr_len + 4
             /\ sent[1][1] = ctl.page_code
             /\ Len(ctl.tokens) <= 1024 => arr_len = Len(ctl.tokens)
    /\ (Controlled /\ ctl.page_code \notin {2, 4, 5, 6, 12})
          => ret = 0 /\ sent = <<>>

\* a supported page has been sent once, and an unsupported request has ended
C16_Witness ==
    /\ Controlled
    /\ ctl.page_code = 12
    /\ Len(sent) = 1 /\ Len(sent[1]) = 7 /\ sent[1][1] = 12

====
